---- MODULE Spec2Model ----
(***************************************************************************)
(* Command catalog of CodeForge IDE (CommandRegistryImpl and               *)
(* CommandHistoryImpl of components/commands/CommandRegistry.ts) as a      *)
(* state machine.  The catalog is a JavaScript Map (insertion ordered),    *)
(* the observers a JavaScript Set (insertion ordered), the history an      *)
(* array that is newest first.  executeCommand is an async function: the   *)
(* part before `await command.action.execute(args)` is one step, the part  *)
(* after it another, and any other operation may run in between.           *)
(* KeyboardManagerImpl (components/commands/KeyboardManager.ts) is the     *)
(* shortcut table, a Map from canonical key to binding, with the keydown   *)
(* handler that executes the bound command through the catalog.            *)
(* The CommandPalette component, the notifications of the app store and    *)
(* the remote buffer of LoggingServiceImpl are state machines of their     *)
(* own over the same variables.                                            *)
(***************************************************************************)
EXTENDS Integers, Sequences, FiniteSets, TLC

VARIABLES
    commands,   \* CommandRegistryImpl.commands: descriptors in insertion order
    entries,    \* CommandHistoryImpl.entries: execution contexts, newest first
    listeners,  \* CommandRegistryImpl.listeners: observers in insertion order
    pending,    \* executeCommand calls suspended at `await execute(args)`
    now,        \* the last value Date.now() returned; each context built gets a
                \* later time than the one before, which also numbers the call
    appended,   \* every context given to history.add since the last clear, oldest first
    keyBindings,  \* KeyboardManagerImpl.keyBindings: bindings in insertion order
    keyListeners, \* KeyboardManagerImpl.listeners: passive listeners in insertion order
    isEnabled,    \* KeyboardManagerImpl.isEnabled
    ev,         \* what the last operation did that its caller can observe
    selectedIndex,    \* CommandPalette: the selectedIndex state
    filteredCommands, \* CommandPalette: the filteredCommands state
    timers,           \* CommandPalette: the queries of the searches waiting in setTimeout, oldest first
    notifications,    \* app store: state.notifications.notifications, newest first
    maxNotifications, \* app store: state.notifications.maxNotifications
    logBuffer,  \* LoggingServiceImpl.logBuffer
    sending,    \* flush calls suspended at `await sendLogsToRemote(logsToSend)`
    delivered,  \* the log entries a send has delivered
    logged      \* the number of entries logged so far; entries are numbered in this order

(* the state of the palette, the app store and the logging service *)
appVars == <<selectedIndex, filteredCommands, timers, notifications,
             maxNotifications, logBuffer, sending, delivered, logged>>

vars == <<commands, entries, listeners, pending, now, appended,
          keyBindings, keyListeners, isEnabled, ev, appVars>>

----------------------------------------------------------------------------
(* Bounds of the model *)

MaxCalls == 2
MaxRuns == 150
MaxCount == 6
MaxCatalog == 2
MaxBindings == 2
MaxKeyCalls == 1
MaxBatch == 3
MaxTimers == 1
MaxNotes == 6
MaxLogs == 3

(* CommandHistoryImpl.maxEntries *)
maxEntries == 100
(* defaultNotificationState.maxNotifications *)
defaultMaxNotifications == 5
(* CommandPalette's default for its maxResults property *)
maxResults == 50

Ids == {"a", "b"}
ListIds == {"a", "b", "c"}
ListenerIds == {"l1", "l2"}
KeyListenerIds == {"k1"}
Errors == {"E1", "E2"}
(* The (args, source) pairs executeCommand is called with; "omitted" is a  *)
(* call that passes no source, "undefined" one that passes no args.        *)
CallInputs == {<<"undefined", "omitted">>, <<"x", "keyboard">>}
NoError == "none"
GuardError == "G"

(* A Command: priority is <<>> when the field is missing, else <<n>>;      *)
(* guarded says whether action.canExecute is present.  The commands that   *)
(* are executed: "a" has no guard, "b" has one.                            *)
Commands ==
    {[id |-> "a", priority |-> <<>>, hidden |-> FALSE, guarded |-> FALSE],
     [id |-> "b", priority |-> <<>>, hidden |-> FALSE, guarded |-> TRUE]}

(* What Map.get returns for a missing key *)
Undefined ==
    [id |-> "undefined", priority |-> <<>>, hidden |-> FALSE, guarded |-> FALSE]

----------------------------------------------------------------------------
(* Sequence helpers *)

Range(s) == {s[i] : i \in 1..Len(s)}

Reverse(s) == [i \in 1..Len(s) |-> s[Len(s) + 1 - i]]

Min(a, b) == IF a < b THEN a ELSE b

Max(a, b) == IF a > b THEN a ELSE b

(* Array.prototype.slice(0, count) for count >= 0 *)
Slice0(s, count) == SubSeq(s, 1, Min(count, Len(s)))

(* command.priority || 0 *)
Prio(c) == IF c.priority = <<>> THEN 0 ELSE c.priority[1]

----------------------------------------------------------------------------
(* CommandHistoryImpl *)

(* add keeping the oldest entries when the cap is exceeded *)
add_KeepOldest(es, context) ==
    LET unshifted == <<context>> \o es
    IN  IF Len(unshifted) > maxEntries
        THEN SubSeq(unshifted, 2, Len(unshifted))
        ELSE unshifted

add(es, context) ==
    LET unshifted == <<context>> \o es
    IN  IF Len(unshifted) > maxEntries
        THEN SubSeq(unshifted, 1, maxEntries)
        ELSE unshifted

getRecent(es, count) == Slice0(es, count)

----------------------------------------------------------------------------
(* CommandRegistryImpl: the catalog *)

has(cs, commandId) == \E i \in 1..Len(cs) : cs[i].id = commandId

get(cs, commandId) ==
    IF has(cs, commandId)
    THEN cs[CHOOSE i \in 1..Len(cs) : cs[i].id = commandId]
    ELSE Undefined

(* register as a plain Map.set: a later descriptor replaces the earlier one *)
register_Overwrite(cs, command) ==
    IF has(cs, command.id)
    THEN [i \in 1..Len(cs) |-> IF cs[i].id = command.id THEN command ELSE cs[i]]
    ELSE Append(cs, command)

register(cs, command) ==
    IF has(cs, command.id) THEN cs ELSE Append(cs, command)

(* registerAll that stops at the first descriptor whose id is present *)
RECURSIVE registerAll_AbortOnDuplicate(_, _)
registerAll_AbortOnDuplicate(cs, ds) ==
    IF ds = <<>> THEN cs
    ELSE IF has(cs, Head(ds).id) THEN cs
    ELSE registerAll_AbortOnDuplicate(register(cs, Head(ds)), Tail(ds))

RECURSIVE registerAll(_, _)
registerAll(cs, ds) ==
    IF ds = <<>> THEN cs
    ELSE registerAll(register(cs, Head(ds)), Tail(ds))

(* unregister as commands.clear() *)
unregister_Clear(cs, commandId) == <<>>

unregister(cs, commandId) ==
    SelectSeq(cs, LAMBDA c : c.id # commandId)

(* Array.prototype.sort with comparator (a, b) => Prio(b) - Prio(a): the   *)
(* sort is stable, so each element goes behind the elements already        *)
(* placed whose priority is not lower.                                     *)
RECURSIVE InsertByPriority(_, _)
InsertByPriority(sorted, c) ==
    IF sorted = <<>> THEN <<c>>
    ELSE IF Prio(Head(sorted)) >= Prio(c)
         THEN <<Head(sorted)>> \o InsertByPriority(Tail(sorted), c)
         ELSE <<c>> \o sorted

RECURSIVE SortByPriority(_)
SortByPriority(cs) ==
    IF cs = <<>> THEN <<>>
    ELSE InsertByPriority(SortByPriority(SubSeq(cs, 1, Len(cs) - 1)), cs[Len(cs)])

(* getAll with the comparator turned round: (a, b) => Prio(a) - Prio(b) *)
getAll_Ascending(cs) ==
    Reverse(SortByPriority(Reverse(SelectSeq(cs, LAMBDA c : ~c.hidden))))

getAll(cs) ==
    SortByPriority(SelectSeq(cs, LAMBDA c : ~c.hidden))

(* getExecutionStats: the object built by the forEach over the history,   *)
(* as the sequence of its <<commandId, count>> entries in the order the    *)
(* keys were created (ids are not integer-like strings)                    *)
RECURSIVE statsLoop(_, _)
statsLoop(stats, es) ==
    IF es = <<>> THEN stats
    ELSE LET id == Head(es).commandId
             known == \E i \in 1..Len(stats) : stats[i][1] = id
         IN  statsLoop(IF known
                       THEN [i \in 1..Len(stats) |->
                               IF stats[i][1] = id
                               THEN <<id, stats[i][2] + 1>> ELSE stats[i]]
                       ELSE Append(stats, <<id, 1>>),
                       Tail(es))

getExecutionStats(es) == statsLoop(<<>>, es)

(* Array.prototype.sort with comparator ([, a], [, b]) => b - a: stable *)
RECURSIVE InsertByCount(_, _)
InsertByCount(sorted, e) ==
    IF sorted = <<>> THEN <<e>>
    ELSE IF Head(sorted)[2] >= e[2]
         THEN <<Head(sorted)>> \o InsertByCount(Tail(sorted), e)
         ELSE <<e>> \o sorted

RECURSIVE SortByCount(_)
SortByCount(stats) ==
    IF stats = <<>> THEN <<>>
    ELSE InsertByCount(SortByCount(SubSeq(stats, 1, Len(stats) - 1)),
                       stats[Len(stats)])

(* getMostUsedCommands: sort, slice(0, count), map to this.get(commandId),  *)
(* filter out undefined, in this order                                     *)
getMostUsedCommands(cs, es, count) ==
    LET top == Slice0(SortByCount(getExecutionStats(es)), count)
        mapped == [i \in 1..Len(top) |-> get(cs, top[i][1])]
    IN  SelectSeq(mapped, LAMBDA c : c # Undefined)

----------------------------------------------------------------------------
(* CommandRegistryImpl.executeCommand                                      *)

(* a default source of 'keyboard' *)
DefaultSource_Keyboard(source) == IF source = "omitted" THEN "keyboard" ELSE source

(* source: CommandExecutionContext['source'] = 'programmatic' *)
DefaultSource(source) == IF source = "omitted" THEN "programmatic" ELSE source

(* if (!command) { console.error(...); return; } as the documentation has  *)
(* it: throw new Error('Command not found')                                *)
onNotFound_Throw(base) ==
    [base EXCEPT !.outcome = "rejected", !.error = "NotFound"]

(* if (!command) { console.error(...); return; } *)
onNotFound(base) == base

(* the guard test without its negation's effect: the command always runs *)
guardAllows_Always(canRes) == TRUE

(* !command.action.canExecute() is false, for a canExecute that returned *)
guardAllows(canRes) == canRes = "true"

(* The part of executeCommand that runs before the await, for the call     *)
(* `call` (the identity of its context) at time t with history es.         *)
(* canRes is what canExecute() does when it is called ("true", "false" or  *)
(* "throws"), exec what the call of execute(args) does before it returns   *)
(* ("throws" err, or "returns" a value or promise to await).  outcome is   *)
(* how the promise of executeCommand stands at the end of the step,        *)
(* entries the history.                                                    *)
executeCommandCall(cs, es, commandId, args, source, canRes, exec, err, t, call) ==
    LET command == get(cs, commandId)
        context == [commandId |-> commandId, timestamp |-> t,
                    source |-> DefaultSource(source), args |-> args, call |-> call]
        base    == [command |-> command, context |-> context, executed |-> FALSE,
                    guardCalled |-> FALSE, outcome |-> "resolved", error |-> NoError,
                    entries |-> es, added |-> <<>>]
    IN  IF command = Undefined
        THEN onNotFound(base)
        ELSE IF command.guarded /\ canRes = "throws"
        THEN [base EXCEPT !.guardCalled = TRUE, !.outcome = "rejected",
                          !.error = GuardError]
        ELSE IF command.guarded /\ ~guardAllows(canRes)
        THEN [base EXCEPT !.guardCalled = TRUE]
        ELSE IF exec = "throws"
        THEN [base EXCEPT !.guardCalled = command.guarded, !.executed = TRUE,
                          !.outcome = "rejected", !.error = err]
        ELSE [base EXCEPT !.guardCalled = command.guarded, !.executed = TRUE,
                          !.outcome = "pending"]

(* forEach without the inner try/catch: the first observer that throws     *)
(* ends the notification and its exception reaches the outer catch         *)
notifyListeners_Propagate(ls, throwers) ==
    IF \E i \in 1..Len(ls) : ls[i] \in throwers
    THEN LET first == CHOOSE i \in 1..Len(ls) :
                        /\ ls[i] \in throwers
                        /\ \A j \in 1..(i - 1) : ls[j] \notin throwers
         IN  [called |-> SubSeq(ls, 1, first), escaped |-> "ListenerError"]
    ELSE [called |-> ls, escaped |-> NoError]

(* listeners.forEach(listener => { try { listener(command, args) } catch {} }): *)
(* every observer is called, in insertion order; no exception escapes.     *)
notifyListeners(ls, throwers) ==
    [called |-> ls, escaped |-> NoError]

(* the catch block throwing a new error in place of the one it caught *)
executeCommandResume_WrapError(es, ls, p, ok, err, throwers) ==
    IF ok
    THEN [entries |-> add(es, p.context), added |-> <<p.context>>, notified |-> ls,
          seen |-> add(es, p.context), passed |-> p.command,
          outcome |-> "resolved", error |-> NoError]
    ELSE [entries |-> es, added |-> <<>>, notified |-> <<>>, seen |-> <<>>,
          passed |-> Undefined, outcome |-> "rejected", error |-> "Wrapped"]

(* the catch block without its throw *)
executeCommandResume_Swallow(es, ls, p, ok, err, throwers) ==
    IF ok
    THEN [entries |-> add(es, p.context), added |-> <<p.context>>, notified |-> ls,
          seen |-> add(es, p.context), passed |-> p.command,
          outcome |-> "resolved", error |-> NoError]
    ELSE [entries |-> es, added |-> <<>>, notified |-> <<>>, seen |-> <<>>,
          passed |-> Undefined, outcome |-> "resolved", error |-> NoError]

(* history.add in a finally block: the record is written on failure too *)
executeCommandResume_RecordOnFailure(es, ls, p, ok, err, throwers) ==
    IF ok
    THEN [entries |-> add(es, p.context), added |-> <<p.context>>, notified |-> ls,
          seen |-> add(es, p.context), passed |-> p.command,
          outcome |-> "resolved", error |-> NoError]
    ELSE [entries |-> add(es, p.context), added |-> <<p.context>>, notified |-> <<>>,
          seen |-> <<>>, passed |-> Undefined, outcome |-> "rejected",
          error |-> err]

(* the observers notified before history.add *)
executeCommandResume_NotifyFirst(es, ls, p, ok, err, throwers) ==
    IF ok
    THEN [entries |-> add(es, p.context), added |-> <<p.context>>, notified |-> ls,
          seen |-> es, passed |-> p.command, outcome |-> "resolved", error |-> NoError]
    ELSE [entries |-> es, added |-> <<>>, notified |-> <<>>, seen |-> <<>>,
          passed |-> Undefined, outcome |-> "rejected", error |-> err]

(* The part of executeCommand that runs after the await, for the pending   *)
(* call p: ok says whether execute's promise fulfilled, err is its         *)
(* rejection otherwise, throwers the observers that throw when called.     *)
(* seen is the history as it stands while the observers are called.        *)
executeCommandResume(es, ls, p, ok, err, throwers) ==
    IF ok
    THEN LET n == notifyListeners(ls, throwers)
         IN  [entries  |-> add(es, p.context),
              added    |-> <<p.context>>,
              notified |-> n.called,
              seen     |-> add(es, p.context),
              passed   |-> p.command,
              outcome  |-> IF n.escaped = NoError THEN "resolved" ELSE "rejected",
              error    |-> n.escaped]
    ELSE [entries |-> es, added |-> <<>>, notified |-> <<>>, seen |-> <<>>,
          passed |-> Undefined, outcome |-> "rejected", error |-> err]

(* a continuation that looks the command up again after the await *)
capturedFrame_LookupAgain(cs, p) ==
    [p EXCEPT !.command = get(cs, p.given.commandId)]

(* what the continuation after the await works with: the constants of its  *)
(* own call (command, args, context), whatever the catalog holds by then   *)
capturedFrame(cs, p) == p

----------------------------------------------------------------------------
(* Strings: a string is a sequence of one-character strings                *)

LowerLetters ==
    <<"a", "b", "c", "d", "e", "f", "g", "h", "i", "j", "k", "l", "m",
      "n", "o", "p", "q", "r", "s", "t", "u", "v", "w", "x", "y", "z">>

UpperLetters ==
    <<"A", "B", "C", "D", "E", "F", "G", "H", "I", "J", "K", "L", "M",
      "N", "O", "P", "Q", "R", "S", "T", "U", "V", "W", "X", "Y", "Z">>

IsUpper(ch) == \E i \in 1..Len(UpperLetters) : UpperLetters[i] = ch

LowerChar(ch) ==
    IF IsUpper(ch)
    THEN LowerLetters[CHOOSE i \in 1..Len(UpperLetters) : UpperLetters[i] = ch]
    ELSE ch

(* String.prototype.toLowerCase *)
toLowerCase(str) == [i \in 1..Len(str) |-> LowerChar(str[i])]

IsSpace(ch) == ch = " "

(* String.prototype.trim *)
RECURSIVE trimStart(_)
trimStart(str) ==
    IF str # <<>> /\ IsSpace(Head(str)) THEN trimStart(Tail(str)) ELSE str

trim(str) == Reverse(trimStart(Reverse(trimStart(str))))

(* String.prototype.startsWith *)
startsWith(str, q) == Len(q) <= Len(str) /\ SubSeq(str, 1, Len(q)) = q

(* String.prototype.includes *)
includes(str, q) ==
    \E i \in 1..(Len(str) - Len(q) + 1) : SubSeq(str, i, i + Len(q) - 1) = q

(* Array.prototype.join(' ') *)
RECURSIVE join(_)
join(strs) ==
    IF strs = <<>> THEN <<>>
    ELSE IF Len(strs) = 1 THEN strs[1]
    ELSE strs[1] \o <<" ">> \o join(Tail(strs))

(* The collation order of String.prototype.localeCompare: the strings are  *)
(* compared letter by letter without regard to case, a space before any    *)
(* letter and a prefix before its extensions; if they are then equal, at   *)
(* the first place where the case differs the lower-case letter goes first. *)
CharRank(ch) ==
    IF IsSpace(ch) THEN 0
    ELSE CHOOSE i \in 1..Len(LowerLetters) : LowerLetters[i] = LowerChar(ch)

RECURSIVE comparePrimary(_, _)
comparePrimary(a, b) ==
    IF a = <<>> /\ b = <<>> THEN 0
    ELSE IF a = <<>> THEN -1
    ELSE IF b = <<>> THEN 1
    ELSE IF CharRank(Head(a)) < CharRank(Head(b)) THEN -1
    ELSE IF CharRank(Head(a)) > CharRank(Head(b)) THEN 1
    ELSE comparePrimary(Tail(a), Tail(b))

RECURSIVE compareCase(_, _)
compareCase(a, b) ==
    IF a = <<>> \/ b = <<>> THEN 0
    ELSE IF Head(a) = Head(b) THEN compareCase(Tail(a), Tail(b))
    ELSE IF IsUpper(Head(b)) THEN -1
    ELSE 1

localeCompare(a, b) ==
    IF comparePrimary(a, b) # 0 THEN comparePrimary(a, b) ELSE compareCase(a, b)

----------------------------------------------------------------------------
(* CommandRegistryImpl.search                                              *)

(* calculateFuzzyScore: the loop over text, from text[i] with queryIndex   *)
(* characters of query matched; the number of characters matched when the  *)
(* loop ends                                                               *)
RECURSIVE fuzzyLoop(_, _, _, _)
fuzzyLoop(query, text, i, queryIndex) ==
    IF i <= Len(text) /\ queryIndex < Len(query)
    THEN IF text[i] = query[queryIndex + 1]
         THEN fuzzyLoop(query, text, i + 1, queryIndex + 1)
         ELSE fuzzyLoop(query, text, i + 1, queryIndex)
    ELSE queryIndex

(* calculateFuzzyScore returns score / text.length, or 0: the fraction is  *)
(* kept as <<numerator, denominator>>, 0 as <<0, 1>>.                      *)
calculateFuzzyScore(query, text) ==
    LET matched == fuzzyLoop(query, text, 1, 0)
    IN  IF matched = Len(query) THEN <<matched, Len(text)>> ELSE <<0, 1>>

(* fuzzyScore >= 0.5 *)
fuzzyPasses_AtLeastHalf(f) == 2 * f[1] >= f[2]

(* fuzzyScore > 0.5 *)
fuzzyPasses(f) == 2 * f[1] > f[2]

(* Math.floor(fuzzyScore * 20) *)
fuzzyPoints(f) == (20 * f[1]) \div f[2]

(* the title tests as three separate ifs, without else *)
titleScore_Additive(title, normalizedQuery) ==
    (IF title = normalizedQuery THEN 100 ELSE 0)
    + (IF startsWith(title, normalizedQuery) THEN 80 ELSE 0)
    + (IF includes(title, normalizedQuery) THEN 60 ELSE 0)

(* the title part of the score *)
titleScore(title, normalizedQuery) ==
    IF title = normalizedQuery THEN 100
    ELSE IF startsWith(title, normalizedQuery) THEN 80
    ELSE IF includes(title, normalizedQuery) THEN 60
    ELSE 0

(* the body of the loop of search for one command that is not hidden *)
score(command, normalizedQuery) ==
    LET title       == toLowerCase(command.title)
        description == toLowerCase(command.description)
        keywords    == toLowerCase(join(command.keywords))
        direct      == titleScore(title, normalizedQuery)
                       + (IF includes(description, normalizedQuery) THEN 40 ELSE 0)
                       + (IF includes(keywords, normalizedQuery) THEN 30 ELSE 0)
                       + (IF includes(toLowerCase(command.category), normalizedQuery)
                          THEN 20 ELSE 0)
        fuzzyScore  == calculateFuzzyScore(normalizedQuery, title)
    IN  IF direct = 0
        THEN IF fuzzyPasses(fuzzyScore) THEN fuzzyPoints(fuzzyScore) ELSE 0
        ELSE direct

(* the comparator without its last line: equal score and priority compare *)
(* as equal                                                                *)
compareResults_NoTitle(a, b) ==
    IF a.score # b.score THEN b.score - a.score
    ELSE Prio(b.command) - Prio(a.command)

(* the comparator with the scores subtracted the other way round *)
compareResults_AscendingScore(a, b) ==
    IF a.score # b.score THEN a.score - b.score
    ELSE IF Prio(a.command) # Prio(b.command)
         THEN Prio(b.command) - Prio(a.command)
         ELSE localeCompare(a.command.title, b.command.title)

(* the comparator with the priority compared before the score *)
compareResults_PriorityFirst(a, b) ==
    IF Prio(a.command) # Prio(b.command)
    THEN Prio(b.command) - Prio(a.command)
    ELSE IF a.score # b.score THEN b.score - a.score
         ELSE localeCompare(a.command.title, b.command.title)

(* the comparator of the sort of the results *)
compareResults(a, b) ==
    IF a.score # b.score THEN b.score - a.score
    ELSE IF Prio(a.command) # Prio(b.command)
         THEN Prio(b.command) - Prio(a.command)
         ELSE localeCompare(a.command.title, b.command.title)

(* Array.prototype.sort with compareResults: stable *)
RECURSIVE InsertResult(_, _)
InsertResult(sorted, r) ==
    IF sorted = <<>> THEN <<r>>
    ELSE IF compareResults(Head(sorted), r) <= 0
         THEN <<Head(sorted)>> \o InsertResult(Tail(sorted), r)
         ELSE <<r>> \o sorted

RECURSIVE SortResults(_)
SortResults(rs) ==
    IF rs = <<>> THEN <<>>
    ELSE InsertResult(SortResults(SubSeq(rs, 1, Len(rs) - 1)), rs[Len(rs)])

(* the loop without `if (command.hidden) continue` *)
scoredResults_WithHidden(cs, normalizedQuery) ==
    LET scored == [i \in 1..Len(cs) |->
                       [command |-> cs[i], score |-> score(cs[i], normalizedQuery)]]
    IN  SelectSeq(scored, LAMBDA r : r.score > 0)

(* the results array that the loop over commands.values() builds *)
scoredResults(cs, normalizedQuery) ==
    LET visible == SelectSeq(cs, LAMBDA c : ~c.hidden)
        scored  == [i \in 1..Len(visible) |->
                       [command |-> visible[i],
                        score |-> score(visible[i], normalizedQuery)]]
    IN  SelectSeq(scored, LAMBDA r : r.score > 0)

(* if (!query) *)
isBlank_NoTrim(query) == query = <<>>

(* if (!query.trim()) *)
isBlank(query) == trim(query) = <<>>

search(cs, query) ==
    IF isBlank(query)
    THEN getAll(cs)
    ELSE LET normalizedQuery == trim(toLowerCase(query))
             sorted == SortResults(scoredResults(cs, normalizedQuery))
         IN  [i \in 1..Len(sorted) |-> sorted[i].command]

(* getByCategory *)
getByCategory(cs, category) ==
    SelectSeq(getAll(cs), LAMBDA c : c.category = category)

----------------------------------------------------------------------------
(* KeyboardManagerImpl *)

(* A KeyboardShortcut: key is a string, modifiers is <<>> when the field   *)
(* is missing, else <<list>>.                                              *)
NoShortcut == [key |-> <<>>, modifiers |-> <<>>]

(* a binding without `when` *)
NoWhen == "none"

(* A keydown event: target is the tagName of event.target, "EDITABLE" an   *)
(* element with isContentEditable.                                         *)
NoEvent ==
    [key |-> <<>>, ctrlKey |-> FALSE, shiftKey |-> FALSE, altKey |-> FALSE,
     metaKey |-> FALSE, target |-> "none"]

(* shortcut.modifiers || [] *)
modifiersOf(shortcut) ==
    IF shortcut.modifiers = <<>> THEN <<>> ELSE shortcut.modifiers[1]

(* the order of the modifier names as strings *)
ModifierRank(m) ==
    CASE m = "alt" -> 1
      [] m = "ctrl" -> 2
      [] m = "meta" -> 3
      [] m = "shift" -> 4

InsertModifier(sorted, m) ==
    LET before == {i \in 1..Len(sorted) : ModifierRank(sorted[i]) <= ModifierRank(m)}
        k == Cardinality(before)
    IN  SubSeq(sorted, 1, k) \o <<m>> \o SubSeq(sorted, k + 1, Len(sorted))

(* [...modifiers].sort() *)
RECURSIVE sortModifiers(_)
sortModifiers(ms) ==
    IF ms = <<>> THEN <<>>
    ELSE InsertModifier(sortModifiers(SubSeq(ms, 1, Len(ms) - 1)), ms[Len(ms)])

(* parts.join('+'): the parts with a "+" between neighbours *)
RECURSIVE joinPlus(_)
joinPlus(parts) ==
    IF parts = <<>> THEN <<>>
    ELSE IF Len(parts) = 1 THEN parts
    ELSE <<Head(parts), "+">> \o joinPlus(Tail(parts))

(* `${sortedModifiers.join('+')}+${shortcut.key.toLowerCase()}` *)
generateShortcutKey(shortcut) ==
    joinPlus(sortModifiers(modifiersOf(shortcut))) \o <<"+">> \o toLowerCase(shortcut.key)

(* keyBindings.has(key) *)
hasKey(kb, key) == \E i \in 1..Len(kb) : kb[i].key = key

(* registerShortcut with Map.set also for a key that is bound: the entry   *)
(* keeps its place and gets the new value                                  *)
registerShortcut_Overwrite(kb, commandId, shortcut, when) ==
    LET key == generateShortcutKey(shortcut)
        binding == [key |-> key, shortcut |-> shortcut, commandId |-> commandId,
                    when |-> when]
    IN  IF hasKey(kb, key)
        THEN [i \in 1..Len(kb) |-> IF kb[i].key = key THEN binding ELSE kb[i]]
        ELSE Append(kb, binding)

registerShortcut(kb, commandId, shortcut, when) ==
    LET key == generateShortcutKey(shortcut)
    IN  IF hasKey(kb, key)
        THEN kb
        ELSE Append(kb, [key |-> key, shortcut |-> shortcut,
                         commandId |-> commandId, when |-> when])

unregisterShortcut(kb, shortcut) ==
    SelectSeq(kb, LAMBDA b : b.key # generateShortcutKey(shortcut))

(* commands.forEach(command => { if (command.keybinding)                   *)
(* this.registerShortcut(command.id, command.keybinding) }): keybinding is *)
(* <<>> when the field is missing, else <<shortcut>>; the binding gets no  *)
(* guard.                                                                  *)
RECURSIVE registerEach(_, _)
registerEach(kb, cs) ==
    IF cs = <<>> THEN kb
    ELSE LET command == Head(cs)
         IN  registerEach(IF command.keybinding # <<>>
                          THEN registerShortcut(kb, command.id,
                                                command.keybinding[1], NoWhen)
                          ELSE kb,
                          Tail(cs))

(* registerCommandShortcuts over the visible commands in the order of     *)
(* their registration, without the sort of getAll                          *)
registerCommandShortcuts_CatalogOrder(kb, cs) ==
    registerEach(kb, SelectSeq(cs, LAMBDA c : ~c.hidden))

(* registerCommandShortcuts: the commands are those of                     *)
(* commandRegistry.getAll()                                                *)
registerCommandShortcuts(kb, cs) == registerEach(kb, getAll(cs))

(* a match that asks only for the modifiers the shortcut lists *)
matchesShortcut_RequiredOnly(event, shortcut) ==
    LET modifiers == Range(modifiersOf(shortcut))
    IN  /\ toLowerCase(event.key) = toLowerCase(shortcut.key)
        /\ ("ctrl" \in modifiers) => event.ctrlKey
        /\ ("shift" \in modifiers) => event.shiftKey
        /\ ("alt" \in modifiers) => event.altKey
        /\ ("meta" \in modifiers) => event.metaKey

matchesShortcut(event, shortcut) ==
    LET modifiers == modifiersOf(shortcut)
        includesModifier(m) == \E i \in 1..Len(modifiers) : modifiers[i] = m
    IN  IF toLowerCase(event.key) # toLowerCase(shortcut.key)
        THEN FALSE
        ELSE /\ event.ctrlKey = includesModifier("ctrl")
             /\ event.shiftKey = includesModifier("shift")
             /\ event.altKey = includesModifier("alt")
             /\ event.metaKey = includesModifier("meta")

(* the target test with the tagName INPUT alone *)
isTextInput_InputOnly(target) == target = "INPUT"

(* the target test of handleKeyDown *)
isTextInput(target) == target \in {"INPUT", "TEXTAREA", "EDITABLE"}

(* handleKeyDown without `if (!this.isEnabled) return` *)
handlesEvent_WhenDisabled(enabled, target) == ~isTextInput(target)

(* whether handleKeyDown gets past its two early returns *)
handlesEvent(enabled, target) == enabled /\ ~isTextInput(target)

(* The loop of handleKeyDown over the bindings from position i on.         *)
(* whenRes[w] is what the guard w does when it is called ("true", "false"  *)
(* or "throws").  fired is the position of the binding the loop stopped    *)
(* at to execute its command (0 when it ran to the end), threw whether a   *)
(* guard threw, whens the guards called in order with what they did.       *)
RECURSIVE findBinding(_, _, _, _, _)
findBinding(kb, i, event, whenRes, whens) ==
    IF i > Len(kb)
    THEN [fired |-> 0, threw |-> FALSE, whens |-> whens]
    ELSE IF ~matchesShortcut(event, kb[i].shortcut)
    THEN findBinding(kb, i + 1, event, whenRes, whens)
    ELSE IF kb[i].when = NoWhen
    THEN [fired |-> i, threw |-> FALSE, whens |-> whens]
    ELSE LET called == Append(whens, <<kb[i].when, whenRes[kb[i].when]>>)
         IN  IF whenRes[kb[i].when] = "throws"
             THEN [fired |-> 0, threw |-> TRUE, whens |-> called]
             ELSE IF whenRes[kb[i].when] = "false"
             THEN findBinding(kb, i + 1, event, whenRes, called)
             ELSE [fired |-> i, threw |-> FALSE, whens |-> called]

(* preventDefault and stopPropagation called as soon as a binding matches, *)
(* before its guard                                                        *)
preventsDefault_OnMatch(found) == found.fired # 0 \/ found.whens # <<>>

(* Whether the loop called event.preventDefault() and                      *)
(* event.stopPropagation(): it does for the binding it stops at, after     *)
(* that binding's guard.                                                   *)
preventsDefault(found) == found.fired # 0

(* the listeners notified only when no binding matched at all *)
forwardsEvent_Unmatched(found) ==
    found.fired = 0 /\ ~found.threw /\ found.whens = <<>>

(* Whether the handler reaches `this.listeners.forEach`: the loop ran to   *)
(* its end without returning.                                              *)
forwardsEvent(found) == found.fired = 0 /\ ~found.threw

(* The promise executeCommand returned to the key handler has a catch      *)
(* handler without one: its rejection is an unhandled rejection            *)
keydownCatch_Missing(outcome) ==
    IF outcome = "rejected" THEN "unhandled" ELSE "none"

(* .catch(error => console.error(...)) on the promise executeCommand       *)
(* returned to the key handler: a rejection is logged and goes no further  *)
keydownCatch(outcome) ==
    IF outcome = "rejected" THEN "logged" ELSE "none"

(* the rejection of a call made by other code goes to that caller *)
callerReceives(outcome) ==
    IF outcome = "rejected" THEN "caller" ELSE "none"

----------------------------------------------------------------------------
(* State machine *)

(* ev: op is the operation, arg the descriptor given to register, id the  *)
(* command id given to executeCommand, call the number of the call; what   *)
(* the callbacks did: guardResult (canExecute), execResult and execError   *)
(* (execute: "threw" in the call, "rejected" or "fulfilled" later),        *)
(* throwers (the observers that threw); and what the operation did:        *)
(* executed (execute was invoked), notified (the observers called, in      *)
(* order), outcome and error (the promise executeCommand returned), result *)
(* (what a query returned), query (the string given to search or          *)
(* getByCategory).  For the keyboard manager: shortcut and when are the    *)
(* arguments of registerShortcut and unregisterShortcut, event the event   *)
(* given to the keydown handler, whens the guards the handler called with  *)
(* what they did, fired the position in the table of the binding whose     *)
(* command the handler executed (0 for none), prevented and stopped        *)
(* whether preventDefault and stopPropagation were called, forwarded the   *)
(* passive listeners called, handler how the handler ended.  rejection is  *)
(* where the rejection of the promise of executeCommand went: to the       *)
(* "caller", or "logged" by the catch handler of the key handler; seen the *)
(* history the execution observers found when they were called, passed the *)
(* descriptor they were called with, batch the descriptors given to        *)
(* registerAll.                                                            *)
NoEv ==
    [op |-> "none", call |-> 0, id |-> "", arg |-> Undefined, outcome |-> "none",
     error |-> NoError, executed |-> FALSE, guardResult |-> "none",
     execResult |-> "none", execError |-> NoError, throwers |-> {},
     notified |-> <<>>, n |-> 0, query |-> <<>>, result |-> <<>>,
     shortcut |-> NoShortcut, when |-> NoWhen, event |-> NoEvent, whens |-> <<>>,
     fired |-> 0, prevented |-> FALSE, stopped |-> FALSE, forwarded |-> <<>>,
     handler |-> "none", rejection |-> "none", seen |-> <<>>, batch |-> <<>>,
     passed |-> Undefined]

AppInit ==
    /\ selectedIndex = 0
    /\ filteredCommands = <<>>
    /\ timers = <<>>
    /\ notifications = <<>>
    /\ maxNotifications = defaultMaxNotifications
    /\ logBuffer = <<>>
    /\ sending = {}
    /\ delivered = {}
    /\ logged = 0

Init ==
    /\ commands = <<>>
    /\ entries = <<>>
    /\ listeners = <<>>
    /\ pending = {}
    /\ now = 0
    /\ appended = <<>>
    /\ keyBindings = <<>>
    /\ keyListeners = <<>>
    /\ isEnabled = TRUE
    /\ ev = NoEv
    /\ AppInit

Register(d) ==
    /\ commands' = register(commands, d)
    /\ ev' = [NoEv EXCEPT !.op = "register", !.arg = d]
    /\ UNCHANGED <<appVars, entries, listeners, pending, now, appended,
                 keyBindings, keyListeners, isEnabled>>

(* unregister that also drops the shortcuts bound to the command *)
Unregister_WithShortcuts(commandId) ==
    /\ commands' = unregister(commands, commandId)
    /\ keyBindings' = SelectSeq(keyBindings, LAMBDA b : b.commandId # commandId)
    /\ ev' = [NoEv EXCEPT !.op = "unregister", !.id = commandId]
    /\ UNCHANGED <<appVars, entries, listeners, pending, now, appended,
                   keyListeners, isEnabled>>

Unregister(commandId) ==
    /\ commands' = unregister(commands, commandId)
    /\ ev' = [NoEv EXCEPT !.op = "unregister", !.id = commandId]
    /\ UNCHANGED <<appVars, entries, listeners, pending, now, appended,
                 keyBindings, keyListeners, isEnabled>>

(* CommandRegistryImpl.clear: commands.clear(); history.clear() *)
Clear ==
    /\ commands' = <<>>
    /\ entries' = <<>>
    /\ appended' = <<>>
    /\ ev' = [NoEv EXCEPT !.op = "clear"]
    /\ UNCHANGED <<appVars, listeners, pending, now,
                 keyBindings, keyListeners, isEnabled>>

Get(commandId) ==
    /\ ev' = [NoEv EXCEPT !.op = "get", !.result = <<get(commands, commandId)>>]
    /\ UNCHANGED <<appVars, commands, entries, listeners, pending, now, appended,
                 keyBindings, keyListeners, isEnabled>>

GetAll ==
    /\ ev' = [NoEv EXCEPT !.op = "getAll", !.result = getAll(commands)]
    /\ UNCHANGED <<appVars, commands, entries, listeners, pending, now, appended,
                 keyBindings, keyListeners, isEnabled>>

GetRecent(count) ==
    /\ ev' = [NoEv EXCEPT !.op = "getRecent", !.n = count,
                          !.result = getRecent(entries, count)]
    /\ UNCHANGED <<appVars, commands, entries, listeners, pending, now, appended,
                 keyBindings, keyListeners, isEnabled>>

GetMostUsedCommands(count) ==
    /\ ev' = [NoEv EXCEPT !.op = "getMostUsedCommands", !.n = count,
                          !.result = getMostUsedCommands(commands, entries, count)]
    /\ UNCHANGED <<appVars, commands, entries, listeners, pending, now, appended,
                 keyBindings, keyListeners, isEnabled>>

(* listeners.add(listener) *)
OnCommandExecute(l) ==
    /\ listeners' = IF l \in Range(listeners) THEN listeners ELSE Append(listeners, l)
    /\ ev' = [NoEv EXCEPT !.op = "onCommandExecute"]
    /\ UNCHANGED <<appVars, commands, entries, pending, now, appended,
                 keyBindings, keyListeners, isEnabled>>

(* the function onCommandExecute returned: listeners.delete(listener) *)
Unsubscribe(l) ==
    /\ listeners' = SelectSeq(listeners, LAMBDA x : x # l)
    /\ ev' = [NoEv EXCEPT !.op = "unsubscribe"]
    /\ UNCHANGED <<appVars, commands, entries, pending, now, appended,
                 keyBindings, keyListeners, isEnabled>>

ExecuteCommand(commandId, args, source, canRes, exec, err) ==
    LET t    == now + 1
        call == t
        r    == executeCommandCall(commands, entries, commandId, args, source,
                                   canRes, exec, err, t, call)
        threw == r.executed /\ exec = "throws"
    IN  /\ now' = IF r.executed THEN t ELSE now
        /\ pending' = IF r.outcome = "pending"
                      THEN pending \cup
                           {[call |-> call, command |-> r.command,
                             context |-> r.context, by |-> "caller",
                             given |-> [commandId |-> commandId, args |-> args,
                                        source |-> source]]}
                      ELSE pending
        /\ entries' = r.entries
        /\ appended' = appended \o r.added
        /\ ev' = [NoEv EXCEPT !.op = "executeCommand", !.call = call,
                              !.id = commandId,
                              !.outcome = r.outcome, !.error = r.error,
                              !.rejection = callerReceives(r.outcome),
                              !.executed = r.executed,
                              !.guardResult = IF r.guardCalled THEN canRes ELSE "none",
                              !.execResult = IF threw THEN "threw" ELSE "none",
                              !.execError = IF threw THEN err ELSE NoError]
        /\ UNCHANGED <<appVars, commands, listeners,
                 keyBindings, keyListeners, isEnabled>>

ExecuteSettle(p, ok, err, throwers) ==
    LET r == executeCommandResume(entries, listeners,
                                  capturedFrame(commands, p), ok, err, throwers)
    IN  /\ p \in pending
        /\ pending' = pending \ {p}
        /\ entries' = r.entries
        /\ appended' = appended \o r.added
        /\ ev' = [NoEv EXCEPT !.op = "settle", !.call = p.call,
                              !.id = p.given.commandId,
                              !.outcome = r.outcome, !.error = r.error,
                              !.rejection = IF p.by = "keydown"
                                            THEN keydownCatch(r.outcome)
                                            ELSE callerReceives(r.outcome),
                              !.execResult = IF ok THEN "fulfilled" ELSE "rejected",
                              !.execError = IF ok THEN NoError ELSE err,
                              !.throwers = IF ok THEN throwers ELSE {},
                              !.notified = r.notified,
                              !.seen = r.seen,
                              !.passed = r.passed]
        /\ UNCHANGED <<appVars, commands, listeners, now,
                 keyBindings, keyListeners, isEnabled>>

(* The catalog with commands executing *)
Next ==
    \/ \E d \in Commands : Register(d)
    \/ \E id \in Ids : Unregister(id)
    \/ Clear
    \/ \E l \in ListenerIds : OnCommandExecute(l)
    \/ \E l \in ListenerIds : Unsubscribe(l)
    \/ \E id \in Ids, in \in CallInputs,
          canRes \in {"true", "false", "throws"}, exec \in {"returns", "throws"},
          err \in Errors :
            /\ now < MaxCalls
            /\ ExecuteCommand(id, in[1], in[2], canRes, exec, err)
    \/ \E p \in pending, err \in Errors : ExecuteSettle(p, FALSE, err, {})
    \/ \E p \in pending, throwers \in SUBSET Range(listeners) :
            ExecuteSettle(p, TRUE, NoError, throwers)

Spec == Init /\ [][Next]_vars

RegisterAll(ds) ==
    /\ commands' = registerAll(commands, ds)
    /\ ev' = [NoEv EXCEPT !.op = "registerAll", !.batch = ds]
    /\ UNCHANGED <<appVars, entries, listeners, pending, now, appended,
                   keyBindings, keyListeners, isEnabled>>

(* The descriptors given in batches: each id with and without a priority *)
BatchCommands ==
    [id : Ids, priority : {<<>>, <<1>>}, hidden : {FALSE}, guarded : {FALSE}]

(* The catalog filled one descriptor at a time and in batches *)
BatchNext ==
    \/ \E d \in BatchCommands : Register(d)
    \/ \E ds \in UNION {[1..k -> BatchCommands] : k \in 0..MaxBatch} :
          RegisterAll(ds)
    \/ \E id \in Ids : Unregister(id)

SpecBatch == Init /\ [][BatchNext]_vars

(* The catalog alone: registration and listing *)
CatalogNext ==
    \/ \E d \in [id : ListIds, priority : {<<>>, <<0>>, <<1>>, <<2>>}, hidden :
          BOOLEAN, guarded : {FALSE}] : Register(d)
    \/ \E id \in ListIds : Unregister(id)
    \/ Clear
    \/ \E id \in ListIds : Get(id)
    \/ GetAll

SpecCatalog == Init /\ [][CatalogNext]_vars

(* The history under a long run of executions of one registered command,   *)
(* one at a time                                                           *)

HistoryInit ==
    /\ commands = <<[id |-> "a", priority |-> <<>>, hidden |-> FALSE, guarded |-> FALSE]>>
    /\ entries = <<>>
    /\ listeners = <<>>
    /\ pending = {}
    /\ now = 0
    /\ appended = <<>>
    /\ keyBindings = <<>>
    /\ keyListeners = <<>>
    /\ isEnabled = TRUE
    /\ ev = NoEv
    /\ AppInit

HistoryNext ==
    \/ /\ now < MaxRuns
       /\ pending = {}
       /\ ExecuteCommand("a", "x", "keyboard", "true", "returns", NoError)
    \/ \E p \in pending : ExecuteSettle(p, TRUE, NoError, {})
    \/ \E count \in 0..MaxCount : GetRecent(count)

SpecHistory == HistoryInit /\ [][HistoryNext]_vars

(* The history of a changing catalog and its statistics *)
MostUsedNext ==
    \/ \E d \in Commands : Register(d)
    \/ \E id \in Ids : Unregister(id)
    \/ \E id \in Ids :
          /\ now < MaxCalls + 1
          /\ pending = {}
          /\ ExecuteCommand(id, "x", "palette", "true", "returns", NoError)
    \/ \E p \in pending : ExecuteSettle(p, TRUE, NoError, {})
    \/ \E count \in 0..MaxCalls : GetMostUsedCommands(count)

SpecMostUsed == Init /\ [][MostUsedNext]_vars

(* The catalog with its search *)

(* Commands given to register in the search runs: a missing description   *)
(* is the empty string, missing keywords the empty list (the code reads   *)
(* both as '').                                                            *)
cmdSave ==
    [id |-> "file.save", title |-> <<"S", "a", "v", "e">>,
     description |-> <<>>,
     keywords |-> <<>>, category |-> <<"f", "i", "l", "e">>,
     priority |-> <<95>>, hidden |-> FALSE, guarded |-> FALSE]

cmdSaveAs ==
    [id |-> "file.saveAs", title |-> <<"S", "a", "v", "e", " ", "A", "s">>,
     description |-> <<>>,
     keywords |-> <<>>, category |-> <<"f", "i", "l", "e">>,
     priority |-> <<70>>, hidden |-> FALSE, guarded |-> FALSE]

cmdSaveFile ==
    [id |-> "file.saveFile", title |-> <<"S", "a", "v", "e", " ", "F", "i", "l", "e">>,
     description |-> <<>>,
     keywords |-> <<>>, category |-> <<"v", "i", "e", "w">>,
     priority |-> <<>>, hidden |-> FALSE, guarded |-> FALSE]

cmdSaveAll ==
    [id |-> "file.saveAll", title |-> <<"S", "a", "v", "e", " ", "A", "l", "l">>,
     description |-> <<"s", "a", "v", "e", " ", "a", "l", "l">>,
     keywords |-> <<<<"s", "a", "v", "e">>>>, category |-> <<"f", "i", "l", "e">>,
     priority |-> <<>>, hidden |-> FALSE, guarded |-> FALSE]

cmdAlpha ==
    [id |-> "x.alpha", title |-> <<"a", "l", "p", "h", "a">>,
     description |-> <<"S", "a", "v", "e">>,
     keywords |-> <<>>, category |-> <<"e", "d", "i", "t">>,
     priority |-> <<>>, hidden |-> FALSE, guarded |-> FALSE]

cmdBeta ==
    [id |-> "x.beta", title |-> <<"B", "e", "t", "a">>,
     description |-> <<"s", "a", "v", "e">>,
     keywords |-> <<>>, category |-> <<"e", "d", "i", "t">>,
     priority |-> <<>>, hidden |-> FALSE, guarded |-> FALSE]

cmdSync ==
    [id |-> "x.sync", title |-> <<"S", "y", "n", "c">>,
     description |-> <<>>,
     keywords |-> <<<<"w", "r", "i", "t", "e">>, <<"d", "i", "s", "k">>>>, category |-> <<"g", "i", "t">>,
     priority |-> <<0>>, hidden |-> FALSE, guarded |-> FALSE]

cmdLower ==
    [id |-> "x.save", title |-> <<"s", "a", "v", "e">>,
     description |-> <<>>,
     keywords |-> <<>>, category |-> <<"e", "d", "i", "t">>,
     priority |-> <<95>>, hidden |-> FALSE, guarded |-> FALSE]

cmdHidden ==
    [id |-> "h.save", title |-> <<"S", "a", "v", "e">>,
     description |-> <<"s", "a", "v", "e">>,
     keywords |-> <<<<"s", "a", "v", "e">>>>, category |-> <<"f", "i", "l", "e">>,
     priority |-> <<99>>, hidden |-> TRUE, guarded |-> FALSE]

Categories == {<<"f", "i", "l", "e">>, <<"e", "d", "i", "t">>, <<"v", "i", "e", "w">>, <<"g", "i", "t">>}

Search(query) ==
    /\ ev' = [NoEv EXCEPT !.op = "search", !.query = query,
                          !.result = search(commands, query)]
    /\ UNCHANGED <<appVars, commands, entries, listeners, pending, now, appended,
                 keyBindings, keyListeners, isEnabled>>

GetByCategory(category) ==
    /\ ev' = [NoEv EXCEPT !.op = "getByCategory", !.query = category,
                          !.result = getByCategory(commands, category)]
    /\ UNCHANGED <<appVars, commands, entries, listeners, pending, now, appended,
                 keyBindings, keyListeners, isEnabled>>

SearchNext ==
    \/ \E d \in {cmdSave, cmdSaveAs, cmdSaveFile, cmdSaveAll, cmdAlpha, cmdBeta,
          cmdSync, cmdLower, cmdHidden} : Len(commands) < MaxCatalog /\ Register(d)
    \/ \E query \in {<<>>, <<" ">>, <<"s", "a", "v", "e">>, <<"S", "a", "v", "e">>,
          <<" ", "s", "a", "v", "e", " ">>, <<"s", "a", "v", "e", " ", "a", "s">>,
          <<"s", "v", "f">>, <<"s", "f">>, <<"s", "v", "e">>, <<"s", "v">>,
          <<"f", "i", "l", "e">>, <<"e", " ", "d">>, <<"z", "z">>} : Search(query)
    \/ \E category \in Categories : GetByCategory(category)
    \/ GetAll

SpecSearch == Init /\ [][SearchNext]_vars

(* Commands found by the fuzzy fallback next to commands found directly:   *)
(* "Sync" and "Gist" have high priorities and no description or keywords,  *)
(* "Push" has the keyword "syc" and the category "git".                     *)
cmdSyncTop ==
    [id |-> "git.sync", title |-> <<"S", "y", "n", "c">>,
     description |-> <<>>,
     keywords |-> <<>>, category |-> <<"g", "i", "t">>,
     priority |-> <<99>>, hidden |-> FALSE, guarded |-> FALSE]

cmdPush ==
    [id |-> "git.push", title |-> <<"P", "u", "s", "h">>,
     description |-> <<>>,
     keywords |-> <<<<"s", "y", "c">>>>, category |-> <<"g", "i", "t">>,
     priority |-> <<>>, hidden |-> FALSE, guarded |-> FALSE]

cmdGist ==
    [id |-> "view.gist", title |-> <<"G", "i", "s", "t">>,
     description |-> <<>>,
     keywords |-> <<>>, category |-> <<"v", "i", "e", "w">>,
     priority |-> <<50>>, hidden |-> FALSE, guarded |-> FALSE]

(* The fuzzy fallback next to direct matches *)
FuzzyNext ==
    \/ \E d \in {cmdSyncTop, cmdPush, cmdGist, cmdSave} : Len(commands) < MaxCatalog /\ Register(d)
    \/ \E query \in {<<"s", "y", "c">>, <<"S", "Y", "C">>, <<"s", "n", "c">>,
          <<"g", "i", "t">>, <<"s", "v", "e">>, <<"s", "a", "v", "e">>} : Search(query)

SpecFuzzy == Init /\ [][FuzzyNext]_vars

(* A hidden and a visible command, listed, searched and executed *)
HiddenPool == {cmdHidden, cmdSave}

HiddenNext ==
    \/ \E d \in HiddenPool : Register(d)
    \/ \E query \in {<<" ">>, <<"s", "a", "v", "e">>, <<"s", "v", "e">>} : Search(query)
    \/ \E category \in Categories : GetByCategory(category)
    \/ GetAll
    \/ \E l \in ListenerIds : OnCommandExecute(l)
    \/ \E d \in HiddenPool, in \in CallInputs, exec \in {"returns", "throws"},
          err \in Errors :
            /\ now < MaxCalls
            /\ ExecuteCommand(d.id, in[1], in[2], "true", exec, err)
    \/ \E p \in pending, err \in Errors : ExecuteSettle(p, FALSE, err, {})
    \/ \E p \in pending : ExecuteSettle(p, TRUE, NoError, {})

SpecHidden == Init /\ [][HiddenNext]_vars

----------------------------------------------------------------------------
(* State machine of the keyboard manager *)

RegisterShortcut(commandId, shortcut, when) ==
    /\ keyBindings' = registerShortcut(keyBindings, commandId, shortcut, when)
    /\ ev' = [NoEv EXCEPT !.op = "registerShortcut", !.id = commandId,
                          !.shortcut = shortcut, !.when = when,
                          !.outcome =
                             IF hasKey(keyBindings, generateShortcutKey(shortcut))
                             THEN "warned" ELSE "set"]
    /\ UNCHANGED <<appVars, commands, entries, listeners, pending, now, appended,
                   keyListeners, isEnabled>>

UnregisterShortcut(shortcut) ==
    /\ keyBindings' = unregisterShortcut(keyBindings, shortcut)
    /\ ev' = [NoEv EXCEPT !.op = "unregisterShortcut", !.shortcut = shortcut]
    /\ UNCHANGED <<appVars, commands, entries, listeners, pending, now, appended,
                   keyListeners, isEnabled>>

(* clear() that also switches the manager on again *)
ClearShortcuts_Reenable ==
    /\ keyBindings' = <<>>
    /\ isEnabled' = TRUE
    /\ ev' = [NoEv EXCEPT !.op = "clearShortcuts"]
    /\ UNCHANGED <<appVars, commands, entries, listeners, pending, now, appended,
                   keyListeners>>

RegisterCommandShortcuts ==
    /\ keyBindings' = registerCommandShortcuts(keyBindings, commands)
    /\ ev' = [NoEv EXCEPT !.op = "registerCommandShortcuts"]
    /\ UNCHANGED <<appVars, commands, entries, listeners, pending, now, appended,
                   keyListeners, isEnabled>>

ClearShortcuts ==
    /\ keyBindings' = <<>>
    /\ ev' = [NoEv EXCEPT !.op = "clearShortcuts"]
    /\ UNCHANGED <<appVars, commands, entries, listeners, pending, now, appended,
                   keyListeners, isEnabled>>

AddListener(k) ==
    /\ keyListeners' = IF k \in Range(keyListeners) THEN keyListeners
                       ELSE Append(keyListeners, k)
    /\ ev' = [NoEv EXCEPT !.op = "addListener"]
    /\ UNCHANGED <<appVars, commands, entries, listeners, pending, now, appended,
                   keyBindings, isEnabled>>

(* the function addListener returned *)
RemoveListener(k) ==
    /\ k \in Range(keyListeners)
    /\ keyListeners' = SelectSeq(keyListeners, LAMBDA x : x # k)
    /\ ev' = [NoEv EXCEPT !.op = "removeListener"]
    /\ UNCHANGED <<appVars, commands, entries, listeners, pending, now, appended,
                   keyBindings, isEnabled>>

Enable ==
    /\ isEnabled' = TRUE
    /\ ev' = [NoEv EXCEPT !.op = "enable"]
    /\ UNCHANGED <<appVars, commands, entries, listeners, pending, now, appended,
                   keyBindings, keyListeners>>

Disable ==
    /\ isEnabled' = FALSE
    /\ ev' = [NoEv EXCEPT !.op = "disable"]
    /\ UNCHANGED <<appVars, commands, entries, listeners, pending, now, appended,
                   keyBindings, keyListeners>>

(* handleKeyDown from event.preventDefault() on, for the binding at        *)
(* position fired: r is what the part of executeCommand before its await   *)
(* did at time t.                                                          *)
KeyDownExecute(looped, fired, canRes, exec, err, t, r) ==
    LET threw == r.executed /\ exec = "throws"
    IN  /\ now' = IF r.executed THEN t ELSE now
        /\ pending' = IF r.outcome = "pending"
                      THEN pending \cup
                           {[call |-> t, command |-> r.command,
                             context |-> r.context, by |-> "keydown",
                             given |-> [commandId |-> r.context.commandId,
                                        args |-> "undefined",
                                        source |-> "keyboard"]]}
                      ELSE pending
        /\ entries' = r.entries
        /\ appended' = appended \o r.added
        /\ ev' = [looped EXCEPT !.fired = fired,
                                !.call = t, !.id = r.context.commandId,
                                !.outcome = r.outcome, !.error = r.error,
                                !.rejection = keydownCatch(r.outcome),
                                !.executed = r.executed,
                                !.guardResult =
                                   IF r.guardCalled THEN canRes ELSE "none",
                                !.execResult = IF threw THEN "threw" ELSE "none",
                                !.execError = IF threw THEN err ELSE NoError]
        /\ UNCHANGED <<appVars, commands, listeners, keyBindings, keyListeners, isEnabled>>

(* handleKeyDown from the loop on, found being what the loop over the      *)
(* bindings came to and handled whether the handler got to the loop.       *)
(* r is the part of executeCommand(binding.commandId, undefined,           *)
(* 'keyboard') that runs inside the handler, before its await.             *)
KeyDownStep(event, canRes, exec, err, throwers, handled, found) ==
    LET fires == handled /\ found.fired # 0
        t == now + 1
        base == [NoEv EXCEPT !.op = "keydown", !.event = event,
                             !.handler = "returned"]
        looped == [base EXCEPT !.whens = found.whens,
                               !.prevented = preventsDefault(found),
                               !.stopped = preventsDefault(found)]
    IN  IF fires
        THEN LET r == executeCommandCall(commands, entries,
                                         keyBindings[found.fired].commandId,
                                         "undefined", "keyboard", canRes, exec,
                                         err, t, t)
             IN  KeyDownExecute(looped, found.fired, canRes, exec, err, t, r)
        ELSE /\ ev' = IF ~handled
                      THEN base
                      ELSE IF found.threw
                      THEN [looped EXCEPT !.handler = "threw"]
                      ELSE IF forwardsEvent(found)
                      THEN [looped EXCEPT !.forwarded = keyListeners,
                                          !.throwers = throwers]
                      ELSE looped
             /\ UNCHANGED <<appVars, commands, entries, listeners, pending, now, appended,
                            keyBindings, keyListeners, isEnabled>>

(* handleKeyDown.  whenRes says what each guard does when called, throwers *)
(* which passive listeners throw; canRes, exec and err are what the        *)
(* command's canExecute and execute do in the part of executeCommand that  *)
(* runs inside the handler, before its await.  The promise executeCommand  *)
(* returns has a catch handler that logs, so its rejection reaches nobody. *)
KeyDown(event, whenRes, canRes, exec, err, throwers) ==
    KeyDownStep(event, canRes, exec, err, throwers,
                handlesEvent(isEnabled, event.target),
                findBinding(keyBindings, 1, event, whenRes, <<>>))

(* The shortcuts the table is filled from: without modifiers field, with   *)
(* an empty list, with one modifier, with the key in upper case, with two  *)
(* modifiers in both orders, with a modifier listed twice                  *)
scP == [key |-> <<"p">>, modifiers |-> <<>>]
scEmptyP == [key |-> <<"p">>, modifiers |-> <<<<>>>>]
scCtrlP == [key |-> <<"p">>, modifiers |-> <<<<"ctrl">>>>]
scCtrlUpperP == [key |-> <<"P">>, modifiers |-> <<<<"ctrl">>>>]
scCtrlShiftP == [key |-> <<"p">>, modifiers |-> <<<<"ctrl", "shift">>>>]
scShiftCtrlP == [key |-> <<"p">>, modifiers |-> <<<<"shift", "ctrl">>>>]
scCtrlCtrlP == [key |-> <<"p">>, modifiers |-> <<<<"ctrl", "ctrl">>>>]
scMetaAltS == [key |-> <<"s">>, modifiers |-> <<<<"meta", "alt">>>>]

Shortcuts ==
    {scP, scEmptyP, scCtrlP, scCtrlUpperP, scCtrlShiftP, scShiftCtrlP, scCtrlCtrlP}

(* the guards bindings are registered with *)
Whens == {"w1"}

(* The shortcut table alone *)
ShortcutsNext ==
    \/ \E commandId \in Ids, shortcut \in Shortcuts, when \in {NoWhen} \cup Whens :
          /\ Len(keyBindings) < MaxBindings
             \/ hasKey(keyBindings, generateShortcutKey(shortcut))
          /\ RegisterShortcut(commandId, shortcut, when)
    \/ \E shortcut \in Shortcuts : UnregisterShortcut(shortcut)
    \/ ClearShortcuts

SpecShortcuts == Init /\ [][ShortcutsNext]_vars

(* The command of the dispatch: "b", which has a guard; "a" is an id that  *)
(* is never in the catalog                                                 *)
KeysCommands == {c \in Commands : c.guarded}

(* The bindings and the events of the dispatch *)

(* the event of pressing key with the modifiers held on target *)
KeyEvent(key, held, target) ==
    [key |-> key, ctrlKey |-> "ctrl" \in held, shiftKey |-> "shift" \in held,
     altKey |-> "alt" \in held, metaKey |-> "meta" \in held, target |-> target]

Events ==
    {KeyEvent(<<"p">>, held, "DIV") :
        held \in {{}, {"ctrl"}, {"shift"}, {"alt"}, {"meta"}, {"ctrl", "shift"},
                  {"ctrl", "shift", "alt", "meta"}}}
    \cup {KeyEvent(<<"P">>, held, "DIV") : held \in {{}, {"ctrl"}}}
    \cup {KeyEvent(<<"s">>, held, "DIV") : held \in {{"alt"}, {"meta", "alt"}}}
    \cup {KeyEvent(<<"p">>, {}, target) : target \in {"INPUT", "TEXTAREA", "EDITABLE"}}

(* what the guards of the bindings and the canExecute and execute of the   *)
(* command do in one key press                                             *)
KeyDownInputs ==
    {<<"true", "true", "returns">>, <<"true", "true", "throws">>,
     <<"true", "false", "returns">>, <<"true", "throws", "returns">>,
     <<"false", "true", "returns">>, <<"throws", "true", "returns">>}

(* The keydown handler over a table, with the catalog it executes in *)
KeysNext ==
    \/ \E d \in KeysCommands : Register(d)
    \/ \E b \in {<<"b", scP, NoWhen>>, <<"b", scCtrlUpperP, "w1">>,
          <<"a", scMetaAltS, "w1">>, <<"a", scCtrlCtrlP, NoWhen>>} :
          /\ Len(keyBindings) < MaxBindings
          /\ RegisterShortcut(b[1], b[2], b[3])
    \/ \E k \in KeyListenerIds : AddListener(k)
    \/ \E k \in KeyListenerIds : RemoveListener(k)
    \/ Enable
    \/ Disable
    \/ \E event \in Events, in \in KeyDownInputs,
          throwers \in SUBSET Range(keyListeners) :
            /\ now < MaxKeyCalls
            /\ KeyDown(event, [w \in Whens |-> in[1]], in[2], in[3], "E1", throwers)
    \/ \E p \in pending, err \in Errors : ExecuteSettle(p, FALSE, err, {})
    \/ \E p \in pending : ExecuteSettle(p, TRUE, NoError, {})

SpecKeys == Init /\ [][KeysNext]_vars

(* The keydown handler over bindings whose command comes and goes *)

StaleNext ==
    \/ \E d \in KeysCommands : Register(d)
    \/ \E d \in KeysCommands : Unregister(d.id)
    \/ Clear
    \/ \E b \in {<<"b", scP, NoWhen>>, <<"b", scCtrlP, "w1">>} :
          /\ Len(keyBindings) < MaxBindings
          /\ RegisterShortcut(b[1], b[2], b[3])
    \/ \E event \in {KeyEvent(<<"p">>, {}, "DIV"), KeyEvent(<<"p">>, {"ctrl"}, "DIV")},
          in \in KeyDownInputs :
            /\ now < MaxCalls
            /\ KeyDown(event, [w \in Whens |-> in[1]], in[2], in[3], "E1", {})
    \/ \E p \in pending, err \in Errors : ExecuteSettle(p, FALSE, err, {})
    \/ \E p \in pending : ExecuteSettle(p, TRUE, NoError, {})

SpecStale == Init /\ [][StaleNext]_vars

(* Commands that carry a keybinding: two with the same canonical key and   *)
(* no priority, one with that key and a priority, one with a key of its    *)
(* own, a hidden one with a key of its own, and one without keybinding     *)
kcOpen ==
    [id |-> "k.open", priority |-> <<>>, hidden |-> FALSE, guarded |-> FALSE,
     keybinding |-> <<scCtrlP>>]
kcLate ==
    [id |-> "k.late", priority |-> <<>>, hidden |-> FALSE, guarded |-> FALSE,
     keybinding |-> <<scCtrlUpperP>>]
kcPrint ==
    [id |-> "k.print", priority |-> <<5>>, hidden |-> FALSE, guarded |-> FALSE,
     keybinding |-> <<scCtrlP>>]
kcFind ==
    [id |-> "k.find", priority |-> <<>>, hidden |-> FALSE, guarded |-> FALSE,
     keybinding |-> <<scShiftCtrlP>>]
kcSecret ==
    [id |-> "k.secret", priority |-> <<>>, hidden |-> TRUE, guarded |-> FALSE,
     keybinding |-> <<scP>>]
kcPlain ==
    [id |-> "k.plain", priority |-> <<9>>, hidden |-> FALSE, guarded |-> FALSE,
     keybinding |-> <<>>]

(* The shortcut table filled from the catalog *)
FromCatalogNext ==
    \/ \E d \in {kcOpen, kcLate, kcPrint, kcFind, kcSecret, kcPlain} :
          Len(commands) < MaxCatalog /\ Register(d)
    \/ RegisterCommandShortcuts
    \/ ClearShortcuts

SpecFromCatalog == Init /\ [][FromCatalogNext]_vars

(* The switch of the manager under everything that can be done to it *)

SwitchNext ==
    \/ Enable
    \/ Disable
    \/ \E d \in {kcOpen, kcSecret} : Register(d)
    \/ \E b \in {<<"k.open", scP, NoWhen>>, <<"k.secret", scCtrlShiftP, "w1">>} :
          /\ Len(keyBindings) < MaxBindings
          /\ RegisterShortcut(b[1], b[2], b[3])
    \/ \E shortcut \in {scP, scCtrlUpperP} : UnregisterShortcut(shortcut)
    \/ RegisterCommandShortcuts
    \/ ClearShortcuts
    \/ \E event \in {KeyEvent(<<"p">>, {}, "DIV"), KeyEvent(<<"p">>, {"ctrl"}, "DIV"),
          KeyEvent(<<"p">>, {}, "INPUT")}, in \in KeyDownInputs :
            /\ now < MaxKeyCalls
            /\ KeyDown(event, [w \in Whens |-> in[1]], in[2], in[3], "E1", {})
    \/ \E p \in pending, err \in Errors : ExecuteSettle(p, FALSE, err, {})
    \/ \E p \in pending : ExecuteSettle(p, TRUE, NoError, {})

SpecSwitch == Init /\ [][SwitchNext]_vars

----------------------------------------------------------------------------
(* CommandPalette: the component's state and its handlers *)

(* searchCommands(searchQuery), called by the effect on a change of the    *)
(* query: the search itself waits in setTimeout(..., 50)                   *)
SearchCommands(searchQuery) ==
    /\ timers' = Append(timers, searchQuery)
    /\ ev' = [NoEv EXCEPT !.op = "searchCommands", !.query = searchQuery]
    /\ UNCHANGED <<commands, entries, listeners, pending, now, appended,
                   keyBindings, keyListeners, isEnabled,
                   selectedIndex, filteredCommands, notifications,
                   maxNotifications, logBuffer, sending, delivered, logged>>

(* the callback of the oldest setTimeout: no categories property is given, *)
(* so the result of the search is cut to maxResults and shown              *)
SearchTimeout ==
    /\ timers # <<>>
    /\ filteredCommands' = Slice0(search(commands, Head(timers)), maxResults)
    /\ selectedIndex' = 0
    /\ timers' = Tail(timers)
    /\ ev' = [NoEv EXCEPT !.op = "searchTimeout", !.query = Head(timers)]
    /\ UNCHANGED <<commands, entries, listeners, pending, now, appended,
                   keyBindings, keyListeners, isEnabled, notifications,
                   maxNotifications, logBuffer, sending, delivered, logged>>

(* the effect of isOpen becoming false: setQuery(''), setSelectedIndex(0), *)
(* setFilteredCommands([]); the query was not empty, so its effect calls   *)
(* searchCommands('')                                                      *)
PaletteClosed ==
    /\ selectedIndex' = 0
    /\ filteredCommands' = <<>>
    /\ timers' = Append(timers, <<>>)
    /\ ev' = [NoEv EXCEPT !.op = "paletteClosed"]
    /\ UNCHANGED <<commands, entries, listeners, pending, now, appended,
                   keyBindings, keyListeners, isEnabled, notifications,
                   maxNotifications, logBuffer, sending, delivered, logged>>

(* handleCommandMouseEnter(index) of a rendered item *)
HandleCommandMouseEnter(index) ==
    /\ index \in 0..(Len(filteredCommands) - 1)
    /\ selectedIndex' = index
    /\ ev' = [NoEv EXCEPT !.op = "mouseEnter", !.n = index]
    /\ UNCHANGED <<commands, entries, listeners, pending, now, appended,
                   keyBindings, keyListeners, isEnabled,
                   filteredCommands, timers, notifications,
                   maxNotifications, logBuffer, sending, delivered, logged>>

(* handleKeyDown of the palette's input.  Escape calls the onClose         *)
(* property and leaves the state to the parent; Enter executes             *)
(* filteredCommands[selectedIndex] through the catalog with source         *)
(* 'palette' when there is such an element, the command's execute          *)
(* returning a promise; any other key but the arrows and Tab does nothing. *)
PaletteKeyDown(key, shiftKey) ==
    LET last == Len(filteredCommands) - 1
        down == key = "ArrowDown" \/ (key = "Tab" /\ ~shiftKey)
        up   == key = "ArrowUp" \/ (key = "Tab" /\ shiftKey)
        chosen == key = "Enter" /\ selectedIndex \in 0..last
        t == now + 1
        base == [NoEv EXCEPT !.op = "paletteKeyDown", !.arg = Undefined,
                             !.n = selectedIndex]
    IN  /\ selectedIndex' = IF down THEN Min(selectedIndex + 1, last)
                            ELSE IF up THEN Max(selectedIndex - 1, 0)
                            ELSE selectedIndex
        /\ IF chosen
           THEN LET r == executeCommandCall(commands, entries,
                                            filteredCommands[selectedIndex + 1].id,
                                            "undefined", "palette", "true",
                                            "returns", NoError, t, t)
                IN  /\ now' = IF r.executed THEN t ELSE now
                    /\ pending' = IF r.outcome = "pending"
                                  THEN pending \cup
                                       {[call |-> t, command |-> r.command,
                                         context |-> r.context, by |-> "palette",
                                         given |-> [commandId |-> r.context.commandId,
                                                    args |-> "undefined",
                                                    source |-> "palette"]]}
                                  ELSE pending
                    /\ ev' = [base EXCEPT !.call = t, !.id = r.context.commandId,
                                          !.outcome = r.outcome,
                                          !.executed = r.executed]
           ELSE /\ ev' = base
                /\ UNCHANGED <<now, pending>>
        /\ UNCHANGED <<commands, entries, listeners, appended,
                       keyBindings, keyListeners, isEnabled,
                       filteredCommands, timers, notifications,
                       maxNotifications, logBuffer, sending, delivered, logged>>

(* The palette over a catalog *)
PaletteNext ==
    \/ \E d \in {cmdSave, cmdSaveAs} : Register(d)
    \/ \E q \in {<<>>, <<"s", "a", "v", "e">>, <<"z", "z">>} :
          Len(timers) < MaxTimers /\ SearchCommands(q)
    \/ SearchTimeout
    \/ Len(timers) < MaxTimers /\ PaletteClosed
    \/ \E index \in 0..MaxCatalog : HandleCommandMouseEnter(index)
    \/ \E key \in {"ArrowDown", "ArrowUp", "Tab", "Enter", "Escape", "a"}, shiftKey \in BOOLEAN :
          /\ key = "Enter" => now < MaxKeyCalls
          /\ PaletteKeyDown(key, shiftKey)
    \/ \E p \in pending : ExecuteSettle(p, TRUE, NoError, {})

SpecPalette == Init /\ [][PaletteNext]_vars

----------------------------------------------------------------------------
(* The app store: notifications *)

(* addNotification: the new notification gets the time of Date.now() as    *)
(* timestamp and in its id; unshift, then the cut to maxNotifications      *)
AddNotification ==
    LET t == now + 1
        unshifted == <<[id |-> t, timestamp |-> t]>> \o notifications
    IN  /\ now' = t
        /\ notifications' = IF Len(unshifted) > maxNotifications
                            THEN Slice0(unshifted, maxNotifications)
                            ELSE unshifted
        /\ ev' = [NoEv EXCEPT !.op = "addNotification", !.n = t]
        /\ UNCHANGED <<commands, entries, listeners, pending, appended,
                       keyBindings, keyListeners, isEnabled,
                       selectedIndex, filteredCommands, timers,
                       maxNotifications, logBuffer, sending, delivered, logged>>

RemoveNotification(notificationId) ==
    /\ notifications' = SelectSeq(notifications, LAMBDA n : n.id # notificationId)
    /\ ev' = [NoEv EXCEPT !.op = "removeNotification", !.n = notificationId]
    /\ UNCHANGED <<commands, entries, listeners, pending, now, appended,
                   keyBindings, keyListeners, isEnabled,
                   selectedIndex, filteredCommands, timers,
                   maxNotifications, logBuffer, sending, delivered, logged>>

ClearNotifications ==
    /\ notifications' = <<>>
    /\ ev' = [NoEv EXCEPT !.op = "clearNotifications"]
    /\ UNCHANGED <<commands, entries, listeners, pending, now, appended,
                   keyBindings, keyListeners, isEnabled,
                   selectedIndex, filteredCommands, timers,
                   maxNotifications, logBuffer, sending, delivered, logged>>

(* setNotificationSettings(settings): Object.assign(state.notifications,   *)
(* settings); settings is <<>> when it has no maxNotifications field       *)
(* (defaultDuration alone), else <<maxNotifications>>                      *)
SetNotificationSettings(settings) ==
    /\ maxNotifications' = IF settings = <<>> THEN maxNotifications
                           ELSE settings[1]
    /\ ev' = [NoEv EXCEPT !.op = "setNotificationSettings"]
    /\ UNCHANGED <<commands, entries, listeners, pending, now, appended,
                   keyBindings, keyListeners, isEnabled,
                   selectedIndex, filteredCommands, timers,
                   notifications, logBuffer, sending, delivered, logged>>

StoreNext ==
    \/ now < MaxNotes /\ AddNotification
    \/ \E id \in 1..MaxNotes : RemoveNotification(id)
    \/ ClearNotifications
    \/ \E settings \in {<<>>, <<2>>, <<defaultMaxNotifications>>} :
          SetNotificationSettings(settings)

SpecStore == Init /\ [][StoreNext]_vars

----------------------------------------------------------------------------
(* LoggingServiceImpl: the buffer of remote logging *)

(* config.batchSize of the service in these runs (10 when not configured); *)
(* config.enableRemote is true                                             *)
batchSize == 2

(* flush(): nothing for an empty buffer; else the buffer is emptied into   *)
(* logsToSend and the call waits for sendLogsToRemote(logsToSend)          *)
flush(buffer, inFlight) ==
    IF buffer = <<>>
    THEN [logBuffer |-> buffer, sending |-> inFlight]
    ELSE [logBuffer |-> <<>>, sending |-> inFlight \cup {buffer}]

(* log(...) with remote logging enabled: addToBuffer(entry), which calls   *)
(* flush() when the buffer has reached batchSize                           *)
Log ==
    LET entry == logged + 1
        pushed == Append(logBuffer, entry)
        r == IF Len(pushed) >= batchSize THEN flush(pushed, sending)
             ELSE [logBuffer |-> pushed, sending |-> sending]
    IN  /\ logged' = entry
        /\ logBuffer' = r.logBuffer
        /\ sending' = r.sending
        /\ ev' = [NoEv EXCEPT !.op = "log", !.n = entry]
        /\ UNCHANGED <<commands, entries, listeners, pending, now, appended,
                       keyBindings, keyListeners, isEnabled,
                       selectedIndex, filteredCommands, timers,
                       notifications, maxNotifications, delivered>>

(* flush() called by the interval of scheduleFlush, by the unload and      *)
(* visibility handlers or from outside                                     *)
Flush ==
    LET r == flush(logBuffer, sending)
    IN  /\ logBuffer' = r.logBuffer
        /\ sending' = r.sending
        /\ ev' = [NoEv EXCEPT !.op = "flush"]
        /\ UNCHANGED <<commands, entries, listeners, pending, now, appended,
                       keyBindings, keyListeners, isEnabled,
                       selectedIndex, filteredCommands, timers,
                       notifications, maxNotifications, delivered, logged>>

(* the part of flush() after its await: sendLogsToRemote(logsToSend)       *)
(* fulfilled (ok), or it rejected and the catch block runs                 *)
(* this.logBuffer.unshift(...logsToSend)                                   *)
FlushSettle(logsToSend, ok) ==
    /\ logsToSend \in sending
    /\ sending' = sending \ {logsToSend}
    /\ logBuffer' = IF ok THEN logBuffer ELSE logsToSend \o logBuffer
    /\ delivered' = IF ok THEN delivered \cup Range(logsToSend) ELSE delivered
    /\ ev' = [NoEv EXCEPT !.op = "flushSettle",
                          !.execResult = IF ok THEN "fulfilled" ELSE "rejected"]
    /\ UNCHANGED <<commands, entries, listeners, pending, now, appended,
                   keyBindings, keyListeners, isEnabled,
                   selectedIndex, filteredCommands, timers,
                   notifications, maxNotifications, logged>>

LoggingNext ==
    \/ logged < MaxLogs /\ Log
    \/ Flush
    \/ \E logsToSend \in sending, ok \in BOOLEAN : FlushSettle(logsToSend, ok)

SpecLogging == Init /\ [][LoggingNext]_vars

----------------------------------------------------------------------------
(* Properties *)

UniqueIds(cs) == \A i, j \in 1..Len(cs) : cs[i].id = cs[j].id => i = j

IndexOf(cs, c) == CHOOSE i \in 1..Len(cs) : cs[i] = c

(* C1: register of a descriptor whose id is already present leaves the     *)
(* catalog as it was, so get(id) still returns the descriptor registered   *)
(* first; no step leaves two descriptors under one id.                     *)
C1_DuplicateRegisterIsNoOp ==
    [][/\ UniqueIds(commands')
       /\ (ev'.op = "register" /\ has(commands, ev'.arg.id))
            => /\ commands' = commands
               /\ get(commands', ev'.arg.id) = get(commands, ev'.arg.id)]_vars

(* a register of a different descriptor under a present id has run *)
C1_Witness ==
    /\ ev.op = "register"
    /\ has(commands, ev.arg.id)
    /\ get(commands, ev.arg.id) # ev.arg
    /\ Len(commands) >= 2

IsExecuteStep(e) == e.op \in {"executeCommand", "settle"}

ExecuteFailed(e) == e.execResult \in {"threw", "rejected"}

(* C2: when execute throws or rejects, the history and the catalog are     *)
(* unchanged, no observer is called and executeCommand rejects with the    *)
(* error execute raised.                                                   *)
C2_FailureLeavesStateAlone ==
    [][(IsExecuteStep(ev') /\ ExecuteFailed(ev')) =>
          /\ entries' = entries
          /\ commands' = commands
          /\ ev'.notified = <<>>
          /\ ev'.outcome = "rejected"
          /\ ev'.error = ev'.execError]_vars

(* execute rejected with observers registered and a record in history *)
C2_Witness ==
    /\ ev.op = "settle"
    /\ ev.execResult = "rejected"
    /\ ev.error = "E2"
    /\ entries # <<>>
    /\ listeners # <<>>
    /\ commands # <<>>

C5_SuccessRecordsAndNotifies ==
    [][/\ (/\ ev'.op = "executeCommand"
           /\ has(commands, ev'.id)
           /\ ev'.guardResult \in {"none", "true"}
           /\ ev'.execResult # "threw")
          => /\ ev'.executed
             /\ \E p \in pending' \ pending : p.call = ev'.call
       /\ (ev'.op = "settle" /\ ev'.execResult = "fulfilled") =>
             \E p \in pending \ pending' :
                /\ p.call = ev'.call
                /\ Len(entries') = Len(entries) + 1
                /\ Tail(entries') = entries
                /\ Head(entries').commandId = p.given.commandId
                /\ Head(entries').args = p.given.args
                /\ Head(entries').source =
                     IF p.given.source = "omitted" THEN "programmatic"
                     ELSE p.given.source
                /\ Len(ev'.notified) = Cardinality(Range(listeners))
                /\ Range(ev'.notified) = Range(listeners)
       /\ Len(entries') > Len(entries) =>
             (ev'.op = "settle" /\ ev'.execResult = "fulfilled")]_vars

(* a call without a source succeeded with two observers and an older       *)
(* record in history                                                       *)
C5_Witness ==
    /\ ev.op = "settle"
    /\ ev.execResult = "fulfilled"
    /\ Len(entries) = 2
    /\ entries[1].call = ev.call
    /\ entries[1].source = "programmatic"
    /\ Len(ev.notified) = 2

(* C6: when an observer throws, the other observers are still notified,    *)
(* the record stays at the front of the history and executeCommand         *)
(* resolves.                                                               *)
C6_ObserverFailureIsolated ==
    [][(ev'.op = "settle" /\ ev'.throwers # {}) =>
          /\ ev'.notified = listeners
          /\ entries' # <<>>
          /\ Head(entries').call = ev'.call
          /\ ev'.outcome = "resolved"
          /\ ev'.error = NoError]_vars

(* the first of two observers threw *)
C6_Witness ==
    /\ ev.op = "settle"
    /\ Len(ev.notified) = 2
    /\ ev.notified[1] \in ev.throwers
    /\ ev.notified[2] \notin ev.throwers

C9_PendingDoesNotBlock ==
    /\ [](\A p \in pending : \A i \in 1..Len(entries) : entries[i].call # p.call)
    /\ [][/\ \A p \in pending \ pending' :
                /\ ev'.execResult = "fulfilled" =>
                     (entries' # <<>> /\ Head(entries') = p.context)
                /\ ev'.execResult = "rejected" =>
                     \A i \in 1..Len(entries') : entries'[i].call # p.call
          /\ \A i \in 1..Len(entries') :
                (\A j \in 1..Len(entries) : entries[j].call # entries'[i].call) =>
                     (ev'.op = "settle" /\ ev'.execResult = "fulfilled"
                        /\ ev'.call = entries'[i].call)
          /\ (pending # {} /\ ev'.op = "register" /\ ~has(commands, ev'.arg.id)) =>
                get(commands', ev'.arg.id) = ev'.arg
          /\ (pending # {} /\ ev'.op = "unregister") =>
                Len(commands') <= Len(commands)]_vars
    /\ [](pending # {} =>
            /\ \A d \in Commands : ENABLED Register(d)
            /\ \A id \in Ids : ENABLED Unregister(id)
            /\ now < MaxCalls =>
                 ENABLED ExecuteCommand("a", "x", "keyboard", "true", "returns", "E1"))

(* a second call was made and settled while the first was still pending,   *)
(* and a command was registered meanwhile                                  *)
C9_Witness ==
    /\ ev.op = "register"
    /\ has(commands, ev.arg.id)
    /\ \E p \in pending : p.call = 1
    /\ \E i \in 1..Len(entries) : entries[i].call = 2

(* C8: the history never holds more than 100 entries; it is the 100 most   *)
(* recently appended records, newest first (so a record appended at the    *)
(* cap evicts the oldest), and getRecent(n) returns the min(n, stored)     *)
(* most recently appended records, newest first.                           *)
C8_HistoryCapped ==
    /\ Len(entries) <= 100
    /\ Len(entries) = IF Len(appended) < 100 THEN Len(appended) ELSE 100
    /\ \A i \in 1..Len(entries) : entries[i] = appended[Len(appended) + 1 - i]
    /\ ev.op = "getRecent" =>
         /\ Len(ev.result) = IF ev.n < Len(entries) THEN ev.n ELSE Len(entries)
         /\ \A i \in 1..Len(ev.result) :
                ev.result[i] = appended[Len(appended) + 1 - i]

(* getRecent(5) after more appends than the cap holds *)
C8_Witness ==
    /\ Len(appended) > 100
    /\ Len(entries) = 100
    /\ ev.op = "getRecent"
    /\ ev.n = 5

(* C10: getAll returns exactly the descriptors that are not hidden, by     *)
(* descending priority with a missing priority counted as 0, and           *)
(* descriptors of equal priority in their registration order.              *)
C10_GetAllOrdered ==
    ev.op = "getAll" =>
        LET r == ev.result
            P(c) == IF c.priority = <<>> THEN 0 ELSE c.priority[1]
        IN  /\ Range(r) = {c \in Range(commands) : ~c.hidden}
            /\ \A i, j \in 1..Len(r) : i < j =>
                 /\ r[i] # r[j]
                 /\ P(r[i]) >= P(r[j])
                 /\ P(r[i]) = P(r[j]) => IndexOf(commands, r[i]) < IndexOf(commands, r[j])

(* getAll on a catalog with a hidden command, where a later command of     *)
(* higher priority moves before an earlier one                             *)
C10_Witness ==
    /\ ev.op = "getAll"
    /\ Len(commands) = 3
    /\ Len(ev.result) = 2
    /\ \E c \in Range(commands) : c.hidden
    /\ ev.result # SelectSeq(commands, LAMBDA c : ~c.hidden)

----------------------------------------------------------------------------
(* Properties of search *)

AllSpaces(str) == \A i \in 1..Len(str) : str[i] = " "

Position(r, c) == CHOOSE i \in 1..Len(r) : r[i] = c

Visible(cs) == {c \in Range(cs) : ~c.hidden}

(* the query as the scoring sees it: lower-cased, without the spaces       *)
(* around it                                                               *)
Normalized(query) == trim(toLowerCase(query))

(* q occurs in t as a subsequence *)
RECURSIVE IsSubsequence(_, _)
IsSubsequence(q, t) ==
    IF q = <<>> THEN TRUE
    ELSE IF t = <<>> THEN FALSE
    ELSE IF Head(q) = Head(t) THEN IsSubsequence(Tail(q), Tail(t))
    ELSE IsSubsequence(q, Tail(t))

(* the sum of the title, description, keywords and category components *)
ComponentSum(c, q) ==
    LET title == toLowerCase(c.title)
    IN  (IF title = q THEN 100
         ELSE IF startsWith(title, q) THEN 80
         ELSE IF includes(title, q) THEN 60 ELSE 0)
        + (IF includes(toLowerCase(c.description), q) THEN 40 ELSE 0)
        + (IF includes(toLowerCase(join(c.keywords)), q) THEN 30 ELSE 0)
        + (IF includes(toLowerCase(c.category), q) THEN 20 ELSE 0)

FuzzyMatches(c, q) ==
    /\ IsSubsequence(q, toLowerCase(c.title))
    /\ 2 * Len(q) > Len(c.title)

FuzzyFallback(c, q) ==
    IF FuzzyMatches(c, q) THEN (20 * Len(q)) \div Len(c.title) ELSE 0

FinalScore(c, q) ==
    IF ComponentSum(c, q) = 0 THEN FuzzyFallback(c, q) ELSE ComponentSum(c, q)

(* C11: search with an empty or all-whitespace query returns what getAll   *)
(* returns.                                                                *)
C11_BlankQueryIsGetAll ==
    (ev.op = "search" /\ AllSpaces(ev.query)) => ev.result = getAll(commands)

(* a search for " " on a catalog that getAll reorders *)
C11_Witness ==
    /\ ev.op = "search"
    /\ ev.query = <<" ">>
    /\ Len(ev.result) = 2
    /\ ev.result # commands

(* C12 as stated: a command whose title equals the query ignoring case     *)
(* comes before every command whose title merely contains the query.       *)
C12_ExactTitleFirst ==
    (ev.op = "search" /\ ~AllSpaces(ev.query)) =>
        \A c \in Visible(commands) :
            toLowerCase(c.title) = toLowerCase(ev.query) =>
                /\ c \in Range(ev.result)
                /\ \A d \in Range(ev.result) :
                     (/\ toLowerCase(d.title) # toLowerCase(ev.query)
                      /\ includes(toLowerCase(d.title), toLowerCase(ev.query)))
                        => Position(ev.result, c) < Position(ev.result, d)

(* C13: the result of a search with a non-blank query is in descending     *)
(* order of score, equal scores in descending order of priority, equal     *)
(* scores and priorities in alphabetical order of title ignoring case.     *)
C13_ResultOrder ==
    (ev.op = "search" /\ ~AllSpaces(ev.query)) =>
        LET r == ev.result
            q == Normalized(ev.query)
            P(c) == IF c.priority = <<>> THEN 0 ELSE c.priority[1]
        IN  \A i, j \in 1..Len(r) : i < j =>
              /\ score(r[i], q) >= score(r[j], q)
              /\ score(r[i], q) = score(r[j], q) =>
                   /\ P(r[i]) >= P(r[j])
                   /\ P(r[i]) = P(r[j]) =>
                        comparePrimary(r[i].title, r[j].title) <= 0

(* two commands of equal score and priority come out in alphabetical order *)
(* although they were registered the other way round                       *)
C13_Witness ==
    /\ ev.op = "search"
    /\ ev.query = <<"s", "a", "v", "e">>
    /\ commands = <<cmdBeta, cmdAlpha>>
    /\ ev.result = <<cmdAlpha, cmdBeta>>

(* C14: the score of a command is the sum of its title, description,       *)
(* keywords and category components, or the fuzzy fallback when that sum   *)
(* is 0; the command is in the result if and only if this score is         *)
(* greater than 0.                                                         *)
C14_ScoreAndMembership ==
    (ev.op = "search" /\ ~AllSpaces(ev.query)) =>
        LET q == Normalized(ev.query)
        IN  \A c \in Visible(commands) :
              /\ score(c, q) = FinalScore(c, q)
              /\ (c \in Range(ev.result)) <=> (FinalScore(c, q) > 0)

(* a search where one command scores on title, description and keywords    *)
(* at once and another does not match at all                               *)
C14_Witness ==
    /\ ev.op = "search"
    /\ ev.query = <<"s", "a", "v", "e">>
    /\ cmdSaveAll \in Range(ev.result)
    /\ ComponentSum(cmdSaveAll, ev.query) = 150
    /\ cmdSync \in Range(commands)
    /\ cmdSync \notin Range(ev.result)

(* C15: a command whose components sum to 0 is in the result if and only   *)
(* if the query is a subsequence of its title and query length / title     *)
(* length exceeds 0.5, and its score is then floor(20 * query length /     *)
(* title length); "svf" and "sf" do not match "Save File".                 *)
C15_FuzzyFallback ==
    (ev.op = "search" /\ ~AllSpaces(ev.query)) =>
        LET q == Normalized(ev.query)
        IN  /\ \A c \in Visible(commands) :
                 /\ ComponentSum(c, q) > 0 => score(c, q) = ComponentSum(c, q)
                 /\ ComponentSum(c, q) = 0 =>
                      /\ (c \in Range(ev.result)) <=> FuzzyMatches(c, q)
                      /\ FuzzyMatches(c, q) =>
                           score(c, q) = (20 * Len(q)) \div Len(c.title)
            /\ q \in {<<"s", "v", "f">>, <<"s", "f">>} =>
                 cmdSaveFile \notin Range(ev.result)

(* "sve" finds "Save" by the fallback (3 of 4 characters) and not          *)
(* "Save As" (3 of 7)                                                      *)
C15_Witness ==
    /\ ev.op = "search"
    /\ ev.query = <<"s", "v", "e">>
    /\ ev.result = <<cmdSave>>
    /\ score(cmdSave, ev.query) = 15
    /\ cmdSaveAs \in Range(commands)

(* C16: with exactly file.save ("Save", 95) and file.saveAs ("Save As",    *)
(* 70) registered, search("save") returns Save, then Save As.              *)
C16_SaveScenario ==
    (/\ ev.op = "search"
     /\ ev.query = <<"s", "a", "v", "e">>
     /\ Len(commands) = 2
     /\ Range(commands) = {cmdSave, cmdSaveAs})
        => ev.result = <<cmdSave, cmdSaveAs>>

(* the scenario with Save As registered first *)
C16_Witness ==
    /\ ev.op = "search"
    /\ ev.query = <<"s", "a", "v", "e">>
    /\ commands = <<cmdSaveAs, cmdSave>>

----------------------------------------------------------------------------
(* Properties of hidden commands *)

IsListing(e) == e.op \in {"getAll", "getByCategory", "search"}

(* C17: a hidden command is in no result of getAll, getByCategory or       *)
(* search; executeCommand on its id invokes its execute, and when that     *)
(* has succeeded the call is recorded at the front of the history and      *)
(* every observer is notified, as for a visible command.                   *)
C17_HiddenUnlistedButExecutable ==
    /\ [](IsListing(ev) =>
            /\ \A i \in 1..Len(ev.result) : ~ev.result[i].hidden
            /\ Len(ev.result) <= Cardinality(Visible(commands)))
    /\ [][/\ (/\ ev'.op = "executeCommand"
              /\ has(commands, ev'.id)
              /\ get(commands, ev'.id).hidden)
             => /\ ev'.executed
                /\ ev'.execResult = "threw"
                     \/ \E p \in pending' \ pending :
                           /\ p.call = ev'.call
                           /\ p.command = get(commands, ev'.id)
          /\ (ev'.op = "settle" /\ ev'.execResult = "fulfilled") =>
                \E p \in pending \ pending' :
                   /\ p.call = ev'.call
                   /\ entries' = <<p.context>> \o entries
                   /\ p.context.commandId = p.command.id
                   /\ ev'.notified = listeners
                   /\ ev'.outcome = "resolved"]_vars

(* a hidden command has been executed, recorded and announced to two       *)
(* observers while a visible command is registered                         *)
C17_Witness ==
    /\ ev.op = "settle"
    /\ ev.execResult = "fulfilled"
    /\ ev.id = cmdHidden.id
    /\ Len(commands) = 2
    /\ entries # <<>>
    /\ entries[1].commandId = cmdHidden.id
    /\ Len(ev.notified) = 2

----------------------------------------------------------------------------
(* Properties of the shortcut table *)

(* the modifiers a shortcut asks for, as a set *)
ModifierSet(shortcut) == Range(modifiersOf(shortcut))

(* the same set of modifiers and the same base key up to letter case *)
SameCombination(s1, s2) ==
    /\ ModifierSet(s1) = ModifierSet(s2)
    /\ toLowerCase(s1.key) = toLowerCase(s2.key)

(* C18: registerShortcut on a shortcut whose canonical key is bound leaves *)
(* the table as it is, whatever command and guard it is given.             *)
C18_BoundKeyIsKept ==
    [][(/\ ev'.op = "registerShortcut"
        /\ hasKey(keyBindings, generateShortcutKey(ev'.shortcut)))
          => keyBindings' = keyBindings]_vars

(* a bound key was registered again for the other command, with another    *)
(* guard and with the shortcut written differently                         *)
C18_Witness ==
    /\ ev.op = "registerShortcut"
    /\ ev.outcome = "warned"
    /\ \E i \in 1..Len(keyBindings) :
          /\ keyBindings[i].key = generateShortcutKey(ev.shortcut)
          /\ keyBindings[i].commandId # ev.id
          /\ keyBindings[i].when # ev.when
          /\ keyBindings[i].shortcut # ev.shortcut

(* C19 as stated: shortcuts with the same set of modifiers and the same    *)
(* base key up to case have the same canonical key, so no two bindings of  *)
(* the table are for the same combination.                                 *)
C19_OneOwnerPerCombination ==
    \A i, j \in 1..Len(keyBindings) :
        SameCombination(keyBindings[i].shortcut, keyBindings[j].shortcut)
            => /\ keyBindings[i].key = keyBindings[j].key
               /\ i = j

----------------------------------------------------------------------------
(* Properties of the keydown handler *)

(* the base keys are equal ignoring case and each of the four flags of the *)
(* event is what the shortcut asks for                                     *)
ExactMatch(event, shortcut) ==
    /\ toLowerCase(event.key) = toLowerCase(shortcut.key)
    /\ event.ctrlKey <=> "ctrl" \in ModifierSet(shortcut)
    /\ event.shiftKey <=> "shift" \in ModifierSet(shortcut)
    /\ event.altKey <=> "alt" \in ModifierSet(shortcut)
    /\ event.metaKey <=> "meta" \in ModifierSet(shortcut)

(* C20: the binding a key press fires has the event's base key up to case  *)
(* and exactly the event's four modifier flags; a key press that no        *)
(* binding matches in this way executes no command.                        *)
C20_ExactModifiers ==
    [][ev'.op = "keydown" =>
          /\ ev'.fired # 0 => ExactMatch(ev'.event, keyBindings[ev'.fired].shortcut)
          /\ (\A i \in 1..Len(keyBindings) :
                 ~ExactMatch(ev'.event, keyBindings[i].shortcut))
               => /\ ev'.fired = 0
                  /\ ~ev'.executed
                  /\ ~ev'.prevented
                  /\ pending' = pending
                  /\ entries' = entries
                  /\ now' = now]_vars

(* Ctrl+p was pressed while p without modifiers is bound to a registered   *)
(* command: nothing fired                                                  *)
C20_Witness ==
    /\ ev.op = "keydown"
    /\ ev.event = KeyEvent(<<"p">>, {"ctrl"}, "DIV")
    /\ isEnabled
    /\ \E i \in 1..Len(keyBindings) :
          /\ keyBindings[i].shortcut = scP
          /\ has(commands, keyBindings[i].commandId)
    /\ ev.fired = 0
    /\ entries = <<>>
    /\ pending = {}

(* the targets that are text-input-like *)
TextTargets == {"INPUT", "TEXTAREA", "EDITABLE"}

(* what a key press leaves alone when it does nothing *)
KeyPressIsNoOp ==
    /\ ev'.fired = 0
    /\ ~ev'.executed
    /\ ~ev'.prevented
    /\ ~ev'.stopped
    /\ ev'.forwarded = <<>>
    /\ ev'.whens = <<>>
    /\ ev'.handler = "returned"
    /\ UNCHANGED <<commands, entries, listeners, pending, now, appended,
                   keyBindings, keyListeners, isEnabled>>

(* C21: a key press on a disabled manager executes no command, calls       *)
(* neither preventDefault nor stopPropagation, appends nothing to the      *)
(* history and notifies no passive listener.                               *)
C21_DisabledIsNoOp ==
    [][(ev'.op = "keydown" /\ ~isEnabled) => KeyPressIsNoOp]_vars

(* a disabled manager got a key press that matches a binding to a          *)
(* registered command, with a passive listener registered                  *)
C21_Witness ==
    /\ ev.op = "keydown"
    /\ ~isEnabled
    /\ ev.event.target = "DIV"
    /\ keyListeners # <<>>
    /\ \E i \in 1..Len(keyBindings) :
          /\ ExactMatch(ev.event, keyBindings[i].shortcut)
          /\ keyBindings[i].when = NoWhen
          /\ has(commands, keyBindings[i].commandId)
    /\ ev.fired = 0
    /\ ~ev.prevented

(* C23: a key press whose target is an input field, a text area or an      *)
(* editable region fires no shortcut: no command is executed and the       *)
(* default action is not prevented, also when a binding matches.           *)
C23_TextInputNeverFires ==
    [][(ev'.op = "keydown" /\ ev'.event.target \in TextTargets)
          => KeyPressIsNoOp]_vars

(* an enabled manager got, from a text area, a key press that matches a    *)
(* binding to a registered command                                         *)
C23_Witness ==
    /\ ev.op = "keydown"
    /\ isEnabled
    /\ ev.event.target = "TEXTAREA"
    /\ \E i \in 1..Len(keyBindings) :
          /\ ExactMatch(ev.event, keyBindings[i].shortcut)
          /\ keyBindings[i].when = NoWhen
          /\ has(commands, keyBindings[i].commandId)
    /\ ev.fired = 0
    /\ ~ev.prevented

(* the key press gets past the early returns of the handler *)
Handled(event) == isEnabled /\ event.target \notin TextTargets

(* the positions of the table whose binding matches the event *)
Matching(event) ==
    {i \in 1..Len(keyBindings) : ExactMatch(event, keyBindings[i].shortcut)}

(* C24 as stated: a key press on an enabled manager, not from a text       *)
(* input, that matches a binding has preventDefault and stopPropagation    *)
(* called, also when the guard returns false.                              *)
C24_PreventedOnMatch ==
    [][(ev'.op = "keydown" /\ Handled(ev'.event) /\ Matching(ev'.event) # {})
          => (ev'.prevented /\ ev'.stopped)]_vars

(* C24 amended: the guard of a matching binding is checked first;          *)
(* preventDefault and stopPropagation are called exactly when a binding    *)
(* fires, which is a matching binding whose guard is absent or returned    *)
(* true; a key press whose matching bindings all have a guard that         *)
(* returned false is not prevented.                                        *)
C24_PreventedOnlyWhenFired ==
    [][ev'.op = "keydown" =>
          /\ ev'.prevented <=> ev'.fired # 0
          /\ ev'.stopped <=> ev'.fired # 0
          /\ ev'.fired # 0 =>
               /\ Handled(ev'.event)
               /\ ev'.fired \in Matching(ev'.event)
               /\ \/ keyBindings[ev'.fired].when = NoWhen
                  \/ /\ ev'.whens # <<>>
                     /\ ev'.whens[Len(ev'.whens)] =
                          <<keyBindings[ev'.fired].when, "true">>
          /\ (/\ Handled(ev'.event)
              /\ \A i \in Matching(ev'.event) : keyBindings[i].when # NoWhen
              /\ \A k \in 1..Len(ev'.whens) : ev'.whens[k][2] = "false")
               => /\ ~ev'.prevented
                  /\ Len(ev'.whens) = Cardinality(Matching(ev'.event))]_vars

(* a key press matched a guarded binding of a registered command, the      *)
(* guard returned false and the default action was not prevented           *)
C24_Witness ==
    /\ ev.op = "keydown"
    /\ isEnabled
    /\ ev.event.target = "DIV"
    /\ \E i \in Matching(ev.event) : has(commands, keyBindings[i].commandId)
    /\ ev.whens = <<<<"w1", "false">>>>
    /\ ~ev.prevented
    /\ ~ev.stopped

(* C25 as stated: the passive listeners get the key press if and only if   *)
(* the manager is enabled, the target is not a text input and no binding   *)
(* matches the event.                                                      *)
C25_ForwardedIffUnmatched ==
    [][ev'.op = "keydown" =>
          ev'.forwarded =
             IF Handled(ev'.event) /\ Matching(ev'.event) = {}
             THEN keyListeners ELSE <<>>]_vars

(* C25 amended: the passive listeners get the key press if and only if     *)
(* the manager is enabled, the target is not a text input and the loop     *)
(* over the bindings ends without firing: every matching binding has a     *)
(* guard and each of these guards returned false.                          *)
C25_ForwardedIffNothingFired ==
    [][ev'.op = "keydown" =>
          /\ ev'.forwarded =
               IF /\ Handled(ev'.event)
                  /\ \A i \in Matching(ev'.event) : keyBindings[i].when # NoWhen
                  /\ Len(ev'.whens) = Cardinality(Matching(ev'.event))
                  /\ \A k \in 1..Len(ev'.whens) : ev'.whens[k][2] = "false"
               THEN keyListeners ELSE <<>>
          /\ ev'.fired # 0 => ev'.forwarded = <<>>
          /\ ev'.handler = "threw" => ev'.forwarded = <<>>]_vars

(* a key press that matched a binding whose guard returned false went to   *)
(* the passive listener                                                    *)
C25_Witness ==
    /\ ev.op = "keydown"
    /\ Matching(ev.event) # {}
    /\ ev.whens = <<<<"w1", "false">>>>
    /\ ev.fired = 0
    /\ ev.forwarded = <<"k1">>

(* the binding at position i lets the handler fire: its guard is absent or *)
(* returned true when the handler called it                                *)
GuardLets(i, whens) ==
    \/ keyBindings[i].when = NoWhen
    \/ \E k \in 1..Len(whens) : whens[k] = <<keyBindings[i].when, "true">>

----------------------------------------------------------------------------
(* Properties of the switch and of the table filled from the catalog *)

(* C22: the manager starts enabled and is always either enabled or         *)
(* disabled; enable() enables it, disable() disables it, and no other      *)
(* operation (key press, registerShortcut, unregisterShortcut,             *)
(* registerCommandShortcuts, clear, or anything done to the catalog)       *)
(* changes the switch.                                                     *)
C22_SwitchOnlyByEnableDisable ==
    /\ isEnabled = TRUE
    /\ [](isEnabled \in BOOLEAN)
    /\ [][/\ isEnabled' # isEnabled => ev'.op \in {"enable", "disable"}
          /\ ev'.op = "enable" => isEnabled' = TRUE
          /\ ev'.op = "disable" => isEnabled' = FALSE]_vars

(* a disabled manager has had its table filled from the catalog and is     *)
(* still disabled                                                          *)
C22_Witness ==
    /\ ~isEnabled
    /\ ev.op = "registerCommandShortcuts"
    /\ keyBindings # <<>>

(* the binding of the table for command c under the canonical key of its   *)
(* keybinding                                                              *)
HasBindingFor(kb, c) ==
    \E i \in 1..Len(kb) :
        /\ kb[i].commandId = c.id
        /\ kb[i].key = generateShortcutKey(c.keybinding[1])

(* no other command of the catalog has a keybinding with the canonical key *)
(* of the keybinding of c                                                  *)
KeyNotShared(cs, c) ==
    \A d \in Range(cs) :
        (d # c /\ d.keybinding # <<>>) =>
            generateShortcutKey(d.keybinding[1]) # generateShortcutKey(c.keybinding[1])

(* C27 as stated: after registerCommandShortcuts on an empty table every   *)
(* command of the catalog, hidden or not, whose keybinding has a canonical *)
(* key no other command shares has a binding to its id.                    *)
C27_EveryKeybindingBound ==
    [][(ev'.op = "registerCommandShortcuts" /\ keyBindings = <<>>) =>
          \A c \in Range(commands) :
              (c.keybinding # <<>> /\ KeyNotShared(commands, c))
                  => HasBindingFor(keyBindings', c)]_vars

----------------------------------------------------------------------------
(* Properties of the catalog, continued *)

(* C28: in the step in which a pending call succeeds every execution       *)
(* observer is called once, in the order of registration; the observers    *)
(* find the record of the call at the front of the history; the call,      *)
(* pending until this step, is resolved at its end.                        *)
C28_ObserversInOrderAfterRecord ==
    [][(ev'.op = "settle" /\ ev'.execResult = "fulfilled") =>
          /\ ev'.notified = listeners
          /\ ev'.seen = entries'
          /\ ev'.seen # <<>>
          /\ Head(ev'.seen).call = ev'.call
          /\ ev'.outcome = "resolved"
          /\ \E p \in pending : p.call = ev'.call /\ pending' = pending \ {p}
          /\ listeners' = listeners]_vars

(* two observers, the second registered first, were called in that order   *)
(* and found the record of the call                                        *)
C28_Witness ==
    /\ ev.op = "settle"
    /\ ev.execResult = "fulfilled"
    /\ listeners = <<"l2", "l1">>
    /\ ev.notified = <<"l2", "l1">>
    /\ ev.seen # <<>>
    /\ ev.seen[1].call = ev.call

(* the descriptors of ds that register lets in one after another: those    *)
(* whose id is neither in cs nor earlier in ds                             *)
Admitted(cs, ds) ==
    LET fresh(i) == /\ ~has(cs, ds[i].id)
                    /\ \A j \in 1..(i - 1) : ds[j].id # ds[i].id
        RECURSIVE From(_)
        From(i) == IF i > Len(ds) THEN <<>>
                   ELSE IF fresh(i) THEN <<ds[i]>> \o From(i + 1)
                   ELSE From(i + 1)
    IN  From(1)

(* C29: registerAll(ds) leaves the catalog as register on each element of  *)
(* ds in order leaves it: the descriptors already there, followed by the   *)
(* descriptors of ds whose id was neither in the catalog nor earlier in    *)
(* ds; a duplicate does not stop the rest.                                 *)
C29_RegisterAllIsRegisterEach ==
    [][ev'.op = "registerAll" =>
          /\ commands' = commands \o Admitted(commands, ev'.batch)
          /\ \A i \in 1..Len(ev'.batch) : has(commands', ev'.batch[i].id)
          /\ UNCHANGED <<entries, listeners, pending, now, appended>>]_vars

(* a batch whose first descriptor has an id of the catalog and whose       *)
(* second has the id of its third: the second was registered               *)
C29_Witness ==
    /\ ev.op = "registerAll"
    /\ Len(ev.batch) = 3
    /\ Len(commands) = 2
    /\ commands[1].id = ev.batch[1].id
    /\ commands[1] # ev.batch[1]
    /\ commands[2] = ev.batch[2]
    /\ ev.batch[3].id = ev.batch[2].id
    /\ ev.batch[3] # ev.batch[2]

(* C30: unregister(id) takes the descriptor with that id out of the        *)
(* catalog and nothing else: the other descriptors keep their order, the   *)
(* history keeps every record, also those of the unregistered command,     *)
(* and an id that is absent changes nothing.                               *)
C30_UnregisterFrame ==
    [][ev'.op = "unregister" =>
          /\ commands' = SelectSeq(commands, LAMBDA c : c.id # ev'.id)
          /\ ~has(commands, ev'.id) => commands' = commands
          /\ ev'.outcome = "none"
          /\ UNCHANGED <<entries, listeners, pending, now, appended>>]_vars

(* a command with a record in the history was unregistered while another   *)
(* command stayed in the catalog                                           *)
C30_Witness ==
    /\ ev.op = "unregister"
    /\ ~has(commands, ev.id)
    /\ commands # <<>>
    /\ \E i \in 1..Len(entries) : entries[i].commandId = ev.id

(* C31: the history is ordered newest-first by timestamp: every record's   *)
(* timestamp is at least the timestamp of the record after it, also when   *)
(* calls overlap and settle in another order than they started.            *)
C31_HistoryNewestFirstByTimestamp ==
    \A i \in 1..(Len(entries) - 1) :
        entries[i].timestamp >= entries[i + 1].timestamp

----------------------------------------------------------------------------
(* Properties of the shortcut table, continued *)

(* C32: for every key press at most one entry of the table has the event's *)
(* base key up to case and exactly its four modifier flags, so the command *)
(* chosen does not depend on the order of the table.                       *)
C32_AtMostOneEntryMatches ==
    \A event \in Events : Cardinality(Matching(event)) <= 1

----------------------------------------------------------------------------
(* Properties of the catalog under overlapping calls *)

(* C33: when execute succeeds for a command that is no longer in the       *)
(* catalog (unregistered or cleared while the call was pending), the call  *)
(* is still recorded at the front of the history and every observer is     *)
(* called with the descriptor the call started with.                       *)
C33_RemovedWhilePendingStillRecorded ==
    [][(/\ ev'.op = "settle"
        /\ ev'.execResult = "fulfilled"
        /\ ~has(commands, ev'.id)) =>
          \E p \in pending \ pending' :
             /\ p.call = ev'.call
             /\ p.command.id = ev'.id
             /\ entries' = <<p.context>> \o entries
             /\ p.context.commandId = ev'.id
             /\ Range(ev'.notified) = Range(listeners)
             /\ ev'.passed = p.command
             /\ commands' = commands]_vars

(* a call of a command succeeded after clear had emptied the catalog and   *)
(* the history, with an observer subscribed                                *)
C33_Witness ==
    /\ ev.op = "settle"
    /\ ev.execResult = "fulfilled"
    /\ commands = <<>>
    /\ Len(entries) = 1
    /\ entries[1].commandId = ev.id
    /\ ev.notified # <<>>
    /\ ev.passed.id = ev.id

----------------------------------------------------------------------------
(* Properties of the keydown handler, continued *)

(* the bindings the event matches, all for commands the catalog lacks *)
OnlyStaleMatches(event) ==
    /\ Matching(event) # {}
    /\ \A i \in Matching(event) : ~has(commands, keyBindings[i].commandId)

----------------------------------------------------------------------------
(* Properties of the shortcut table filled from the catalog *)

(* the positions of the visible commands of cs whose keybinding has the    *)
(* canonical key key                                                       *)
Contenders(cs, key) ==
    {i \in 1..Len(cs) :
        /\ ~cs[i].hidden
        /\ cs[i].keybinding # <<>>
        /\ generateShortcutKey(cs[i].keybinding[1]) = key}

(* the contender with the highest priority, the earliest registered among  *)
(* those of equal priority                                                 *)
Winner(cs, key) ==
    CHOOSE i \in Contenders(cs, key) :
        \A j \in Contenders(cs, key) \ {i} :
            \/ Prio(cs[i]) > Prio(cs[j])
            \/ Prio(cs[i]) = Prio(cs[j]) /\ i < j

(* the canonical keys of the keybindings of the visible commands of cs *)
CatalogKeys(cs) ==
    {generateShortcutKey(cs[i].keybinding[1]) :
        i \in {j \in 1..Len(cs) : ~cs[j].hidden /\ cs[j].keybinding # <<>>}}

(* C35: registerCommandShortcuts binds every canonical key that visible    *)
(* commands carry and that was not bound before to the command of highest  *)
(* priority among them, the earliest registered among equal priorities;    *)
(* the table gets one binding for the key, with the winner's keybinding    *)
(* and no guard, and the bindings it had stay in front unchanged.          *)
C35_HighestPriorityGetsSharedKey ==
    [][ev'.op = "registerCommandShortcuts" =>
          /\ SubSeq(keyBindings', 1, Len(keyBindings)) = keyBindings
          /\ \A key \in CatalogKeys(commands) :
               ~hasKey(keyBindings, key) =>
                  LET w == commands[Winner(commands, key)]
                      added == {i \in (Len(keyBindings) + 1)..Len(keyBindings') :
                                   keyBindings'[i].key = key}
                  IN  /\ Cardinality(added) = 1
                      /\ \A i \in added :
                            /\ keyBindings'[i].commandId = w.id
                            /\ keyBindings'[i].shortcut = w.keybinding[1]
                            /\ keyBindings'[i].when = NoWhen
                      /\ \A j \in Contenders(commands, key) :
                            commands[j] # w =>
                               \A i \in (Len(keyBindings) + 1)..Len(keyBindings') :
                                   keyBindings'[i].commandId # commands[j].id]_vars

(* two visible commands with the canonical key ctrl+p, the one with the    *)
(* priority registered second, and the key went to it                      *)
C35_Witness ==
    /\ ev.op = "registerCommandShortcuts"
    /\ commands = <<kcOpen, kcPrint>>
    /\ Len(keyBindings) = 1
    /\ keyBindings[1].commandId = "k.print"
    /\ keyBindings[1].key = <<"ctrl", "+", "p">>

----------------------------------------------------------------------------
(* Properties of search, continued *)

(* C36: in a search result every command whose title, description,         *)
(* keywords and category components sum to 0 (found by the fuzzy fallback  *)
(* alone) has a score from 10 to 19, every other command of the result has *)
(* a score of at least 20 and comes before it, whatever the priorities.    *)
C36_FuzzyOnlyRanksLast ==
    (ev.op = "search" /\ ~AllSpaces(ev.query)) =>
        LET q == Normalized(ev.query)
        IN  \A i \in 1..Len(ev.result) :
              ComponentSum(ev.result[i], q) = 0 =>
                 /\ score(ev.result[i], q) \in 10..19
                 /\ \A j \in 1..Len(ev.result) :
                       ComponentSum(ev.result[j], q) > 0 =>
                          /\ score(ev.result[j], q) >= 20
                          /\ j < i

(* "syc" finds "Push" by its keyword and "Sync", of priority 99, by the    *)
(* fallback: "Push" comes first                                            *)
C36_Witness ==
    /\ ev.op = "search"
    /\ ev.query = <<"s", "y", "c">>
    /\ ev.result = <<cmdPush, cmdSyncTop>>
    /\ ComponentSum(cmdSyncTop, ev.query) = 0
    /\ Prio(cmdSyncTop) > Prio(cmdPush)

----------------------------------------------------------------------------
(* Properties of the statistics *)

(* the number of records of the history for commandId *)
Executions(commandId) ==
    Cardinality({i \in 1..Len(entries) : entries[i].commandId = commandId})

(* the registered commands that have a record in the history *)
UsedAndRegistered ==
    {c \in Range(commands) : Executions(c.id) > 0}

(* C37: getMostUsedCommands(n) returns min(n, k) commands, k being the     *)
(* number of registered commands with a record in the history: the most    *)
(* executed of them, each once, in descending order of their number of     *)
(* records; ids of the history that are no longer registered take no       *)
(* place in the result.                                                    *)
C37_MostUsedOfRegistered ==
    ev.op = "getMostUsedCommands" =>
        LET k == Cardinality(UsedAndRegistered)
        IN  /\ Len(ev.result) = IF ev.n < k THEN ev.n ELSE k
            /\ \A i \in 1..Len(ev.result) : ev.result[i] \in UsedAndRegistered
            /\ \A i, j \in 1..Len(ev.result) :
                  /\ i < j => Executions(ev.result[i].id) >= Executions(ev.result[j].id)
                  /\ ev.result[i] = ev.result[j] => i = j
            /\ \A c \in UsedAndRegistered \ Range(ev.result) :
                  \A i \in 1..Len(ev.result) :
                      Executions(ev.result[i].id) >= Executions(c.id)

----------------------------------------------------------------------------
(* Properties of the command palette *)

(* C38: selectedIndex stays within 0..max(0, filteredCommands.length - 1)  *)
(* under the arrow and Tab keys and the updates of the result list; it is  *)
(* never negative, also when the list is empty.                            *)
C38_SelectedIndexInRange ==
    selectedIndex \in 0..Max(0, Len(filteredCommands) - 1)

----------------------------------------------------------------------------
(* Properties of the app store *)

(* C39: the notifications list holds at most maxNotifications entries,     *)
(* newest first, in every state reached by addNotification,                *)
(* removeNotification, clearNotifications and setNotificationSettings.     *)
C39_NotificationsCapped ==
    /\ Len(notifications) <= maxNotifications
    /\ \A i \in 1..(Len(notifications) - 1) :
          notifications[i].timestamp >= notifications[i + 1].timestamp

----------------------------------------------------------------------------
(* Properties of the logging service *)

(* the entries logged and not delivered, in the order they were logged *)
Undelivered ==
    LET RECURSIVE From(_)
        From(n) == IF n > logged THEN <<>>
                   ELSE IF n \in delivered THEN From(n + 1)
                   ELSE <<n>> \o From(n + 1)
    IN  From(1)

(* C40: when no flush is waiting for its send, the buffer holds every      *)
(* entry that was logged and not delivered exactly once, in the order the  *)
(* entries were logged.                                                    *)
C40_BufferKeepsLogOrder ==
    sending = {} => logBuffer = Undelivered

====
